---- MODULE Spec2Model ----
(***************************************************************************)
(* Verification model of the fiber-aware I/O runtime of gaia:              *)
(*   - the round_robin scheduling algorithm and its sentinel timer         *)
(*     (examples/asio_fibers.cc), first as a bare API (AlgoSpec), then     *)
(*     together with the drive loop and the fiber dispatcher (LoopSpec);   *)
(*   - the echo accept server and its sessions (ServerSpec);               *)
(*   - the io_uring manager and the RedisConnection state machine of the   *)
(*     ping server (RingSpec, UringSpec);                                  *)
(*   - the pipeline executor: Run, Stop, the worker and mapper fibers of   *)
(*     each reactor and the per-reactor Shutdown (PipeSpec).               *)
(***************************************************************************)
EXTENDS Naturals, Integers, Sequences, FiniteSets, Bags, TLC

----------------------------------------------------------------------------
(* Bounds of the model *)

NumWorkers == 1      \* fibers besides the dispatcher and the loop fiber
MaxTime == 1         \* steady_clock values 0..MaxTime
MaxLog == 4          \* length of the awakened()/pick_next() history kept
MaxHandlers == 3     \* ready handlers kept in the io_context (API model)
MaxConn == 2         \* Connection objects the server allocates
MaxSend == 2         \* bytes one peer sends
MaxSteps == 1        \* yields, waits and sleeps of the worker fibers, in total
RingEntries == 3     \* entries of the submission ring (4096 in URingManager)
BatchSize == 2       \* completions peeked at once (32 in URingManager::Run)
MaxFd == 1           \* connections the ping server accepts
ReqLen == 2          \* bytes of one request frame
MaxBytes == 4        \* bytes the peers of the ping server send, in total
NumReactors == 2     \* IoContexts of the pool the pipeline runs on
MaxFiles == 2        \* inputs of a pipeline run, of one file each
RecsPerFile == 1     \* records ProcessFile decodes from one file
FileQueueCap == 1    \* capacity of the file-name queue (16 in Run)
RecordQueueCap == 1  \* capacity of a record queue (256 in PerIoStruct)
MaxLimit == 2        \* the --map_limit tried
YieldEvery == 2      \* records between two yields of MapFiber (1000 in the code, even like it)
MaxBad == 1          \* records of a run that do not parse
MaxNodes == 3        \* VarzListNode objects (addresses) of the process
NumThreads == 2      \* threads calling IncBy and Set of one VarzMapCount
MaxCalls == 2        \* calls of IncBy and Set made in all
MaxKeys == 1         \* non-empty keys

----------------------------------------------------------------------------
(* Fibers and time *)

DISP == <<"dispatcher", 0>>
MAIN == <<"main", 0>>
NULL == <<"nullptr", 0>>
Workers == { <<"worker", i>> : i \in 1..NumWorkers }
Fibers == {DISP, MAIN} \cup Workers

TimeMax == MaxTime + 1
Deadlines == 1..MaxTime

(* Connections and the fibers of the echo server *)

max_length == 1024
Conns == 1..MaxConn
NOBODY == <<"nobody", 0>>
SERVER == <<"server", 0>>
FREE == "free"   \* Done::mutex is unlocked
NULLNODE == 0    \* nullptr as a VarzListNode*
NOTHREAD == 0    \* no thread holds rw_spinlock_ exclusively
EMPTYKEY == 0    \* the empty StringPiece
Threads == 1..NumThreads
Keys == 0..MaxKeys
Deltas == {-1, 0, 1}   \* the int32 arguments tried
NoVarzCall == [op |-> "none", key |-> EMPTYKEY, arg |-> 0]
NoHold == [shared |-> 0, excl |-> 0]
Nodes == 1..MaxNodes
MAIN_THREAD == "main"   \* the thread of main()
SESSION(c) == <<"session", c>>
NoResult == [ec |-> "none", n |-> 0]

VARIABLES
  \* round_robin
  rqueue,        \* rqueue_ : the ready queue, a sequence of fibers
  counter_,      \* counter_ : number of ready non-dispatcher fibers
  active,        \* fibers::context::active()
  timerExpiry,   \* suspend_timer_.expiry()
  timerPending,  \* number of async_wait handlers waiting on suspend_timer_
  handlerQ,      \* handlers the io_context is ready to run, in order
  now,           \* steady_clock::now()
  \* drive loop and fibers
  mainpc,        \* position of the loop fiber inside round_robin::loop
  wstate,        \* state of each worker fiber
  wdeadline,     \* wake time of a sleeping worker
  wsteps,        \* yields, waits and sleeps done by the workers so far
  remoteReady,   \* fibers made ready by another thread, not yet linked
  stopped,       \* io_svc_->stopped()
  workGuard,     \* rr_service::work_ still owns work
  \* history
  lastOp,        \* the last scheduler call and what it saw
  enqLog,        \* fibers in the order awakened() linked them
  pickLog,       \* fibers in the order pick_next() returned them
  \* echo server
  srvpc,         \* position of the server fiber
  cpu,           \* the fiber that is in the middle of a run, or NOBODY
  listenerOpen,  \* sd->acceptor is open
  pendingConn,   \* the Connection handed to async_accept
  cstate,        \* per Connection: position of its session fiber
  clist,         \* ConnectionList clist, in order
  sockOpen,      \* per Connection: socket.is_open()
  srvWake,       \* the server fiber was woken from empty_list.wait
  doneNotified,  \* Done::ready
  cres,          \* per Connection: result of the last operation [ec, n]
  data,          \* per Connection: the first n bytes of data[]
  wrem,          \* per Connection: bytes async_write has still to write
  inbuf,         \* per Connection: bytes sent by the peer, not yet read
  peerClosed,    \* per Connection: the peer closed its end
  sentLog,       \* per Connection: every byte the peer sent
  echoed,        \* per Connection: every byte written back to the peer
  destroyed,     \* per Connection: number of times it was destroyed
  everLinked,    \* per Connection: it was linked into clist at some time
  dmutex,        \* Done::mutex: FREE or the thread that holds it
  dcond,         \* Done::cond: the threads waiting on it
  waitpc,        \* position of main in done.wait(), pool.Stop(), pool.Join()
  condNotified   \* the server fiber has executed cond.notify_one()

schedVars == <<rqueue, counter_, active, timerExpiry, timerPending, handlerQ, now>>
loopVars == <<mainpc, wstate, wdeadline, wsteps, remoteReady, stopped, workGuard>>
histVars == <<lastOp, enqLog, pickLog>>
srvVars == <<srvpc, cpu, listenerOpen, pendingConn, cstate, clist, sockOpen,
             srvWake, doneNotified>>
echoVars == <<cres, data, wrem, inbuf, peerClosed, sentLog, echoed>>
connHist == <<destroyed, everLinked>>
doneVars == <<dmutex, dcond, waitpc, condNotified>>

(* The io_uring manager and its connections *)

LFD == 0                       \* the listening socket
Fds == 1..MaxFd                \* the accepted sockets, in accept order
NullData == 0                  \* user_data of an SQE that carries no event
Ev(fd) == fd + 1               \* the URingEvent of a socket: its place in storage_
FdOf(ev) == ev - 1
Events == { Ev(fd) : fd \in {LFD} \cup Fds }

VARIABLES
  linked_ske,    \* FLAGS_linked_ske
  sq,            \* SQEs obtained by GetSubmit and not yet submitted
  kern,          \* submitted chains of SQEs the kernel has not completed, a bag
  cq,            \* completion queue: CQEs not yet consumed, oldest first
  batch,         \* cqes[] of Run: [n] peeked, [i] handled, [adv] advanced
  upc,           \* position of URingManager::Run
  ucrash,        \* the failed CHECK that aborted the process, or "none"
  cb_,           \* per URingEvent: cb_ is set
  state_,        \* per socket: RedisConnection::state_, "none" before accept
  sockOps,       \* per socket: shutdown / close calls made on it, in order
  udec,          \* per socket: bytes the PingCommand parser holds undecoded
  conn,          \* per socket: "none", "backlog" (not accepted yet), "accepted"
  rcvbuf,        \* per socket: bytes received by the kernel, not yet read
  upeerClosed,   \* per socket: the peer has closed its end
  usockErr,      \* per socket: the socket is in error (reset)
  \* observation
  ulast,         \* the last callback invocation [ev, res]
  ucalls,        \* number of callback invocations, modulo 2
  ucqes,         \* per socket: CQEs produced for its SQEs
  usends,        \* per socket: sendmsg SQEs prepared
  ubytesSent,    \* per socket: bytes the peer has sent
  ushort         \* per socket: a recvmsg ended without a decoded request

ringVars == <<linked_ske, sq, kern, cq, batch, upc, ucrash, cb_>>
redisVars == <<state_, sockOps, udec, conn, rcvbuf, upeerClosed, usockErr>>
uringObs == <<ulast, ucalls, ucqes, usends, ubytesSent, ushort>>
uringVars == <<ringVars, redisVars, uringObs>>

(* The pipeline executor *)

Reactors == 1..NumReactors
Files == 1..MaxFiles

VARIABLES
  map_limit,     \* FLAGS_map_limit
  prun,          \* position of the thread inside Executor::Run
  pvisited,      \* reactors on which the current AwaitOnAll callback of Run has run
  nextFile,      \* the next input Run pushes
  file_name_q_,  \* contents of the file-name queue
  fqState,       \* "null" (no queue), "open" or "closed"
  per_io_,       \* per reactor: "null" or "live"
  stop_early,    \* per reactor: per_io_->stop_early
  wpc,           \* per reactor: position of the ProcessFiles fiber
  wleft,         \* per reactor: records ProcessFile has still to push
  rqlen,         \* per reactor: records in record_q
  closing,       \* per reactor: record_q.StartClosing was called
  mpc,           \* per reactor: position of the MapFiber fiber
  record_num,    \* per reactor: record_num of MapFiber
  mapped,        \* per reactor: calls of the do-function
  skipped,       \* per reactor: records popped and dropped for map_limit
  pushed,        \* per reactor: records pushed into record_q
  spc,           \* per reactor: position inside PerIoStruct::Shutdown
  flushed,       \* per reactor: do_context->Flush was called
  stoppc,        \* position of the thread inside Executor::Stop
  svisited,      \* reactors on which the callback of Stop has run
  pcrash,        \* a null per_io_ or a reset file_name_q_ was dereferenced
  closes,        \* calls of file_name_q_->close()
  processed,     \* per file: calls of runner_->ProcessFile
  parse_errors,  \* per reactor: do_context->parse_errors
  parse_errs,    \* the total Run has added up, -1 before it did
  yields,        \* per reactor: calls of this_fiber::yield in MapFiber
  faults,        \* records that will not parse, exceptions a fiber will throw
  thrown,        \* reactors on which a fiber function was left by an exception
  terminated,    \* std::terminate was called
  global_list,   \* VarzListNode::global_list(): the head, NULLNODE when empty
  next_,         \* per VarzListNode: next_
  prev_,         \* per VarzListNode: prev_
  liveNodes,     \* the VarzListNode objects constructed and not destroyed
  g_varz_lock,   \* ReadHolders of VarzListNode::g_varz_lock
  iterNode,      \* the node variable of the loop in Iterate
  iterated,      \* the nodes f was called for by the Iterate in progress
  ctorOrder,     \* the live nodes, most recently constructed first
  lastDtor,      \* where in the list the last destroyed node was
  danglingUse,   \* a destroyed VarzListNode was read or written
  rw_spinlock_,  \* VarzMapCount::rw_spinlock_: [readers, writer]
  map_counts_,   \* VarzMapCount::map_counts_: key -> counter
  vpc,           \* per thread: position inside IncBy / Set
  vcall,         \* per thread: the call in progress [op, key, arg]
  vholds,        \* per thread: acquisitions of rw_spinlock_ not yet released
  callsLeft,     \* calls of IncBy and Set still to be made
  inserts,       \* per key: elements emplace has added to map_counts_
  deltaSum,      \* per key: sum of the deltas IncBy was called with
  setKeys,       \* keys Set was called with
  dfatal         \* LOG(DFATAL) has ended the process (debug build)

runVars == <<map_limit, prun, pvisited, nextFile, file_name_q_, fqState>>
ioVars == <<per_io_, stop_early, wpc, wleft, rqlen, closing, mpc, record_num,
            mapped, skipped, pushed, spc, flushed>>
stopVars == <<stoppc, svisited, pcrash>>
auxVars == <<closes, processed, parse_errors, parse_errs, yields, faults, thrown,
             terminated>>
pipeVars == <<runVars, ioVars, stopVars, auxVars>>
listVars == <<global_list, next_, prev_, liveNodes, g_varz_lock, iterNode, iterated,
              ctorOrder, lastDtor, danglingUse>>

\* what the scheduler model leaves alone, and what the server model does
mapVars == <<rw_spinlock_, map_counts_, vpc, vcall, vholds, callsLeft, inserts,
             deltaSum, setKeys, dfatal>>
varzVars == <<listVars, mapVars>>
outsideSched == <<srvVars, echoVars, connHist, doneVars, uringVars, pipeVars, varzVars>>
outsideServer == <<schedVars, loopVars, histVars, doneVars, uringVars, pipeVars,
                   varzVars>>
outsideUring == <<schedVars, loopVars, histVars, srvVars, echoVars, connHist, doneVars,
                  pipeVars, varzVars>>
outsidePipe == <<schedVars, loopVars, histVars, srvVars, echoVars, connHist, doneVars,
                 uringVars, varzVars>>
outsideVarz == <<schedVars, loopVars, histVars, srvVars, echoVars, connHist, doneVars,
                 uringVars, pipeVars>>

----------------------------------------------------------------------------
(* The ready queue: awakened, pick_next, has_ready_fibers.                  *)
(* A queue state is a record [q, n] standing for (rqueue_, counter_).      *)

RQ == [q |-> rqueue, n |-> counter_]

is_dispatcher(ctx) == ctx = DISP

awakened_countall(s, ctx) ==
  [q |-> Append(s.q, ctx), n |-> s.n + 1]

awakened(s, ctx) ==
  [q |-> Append(s.q, ctx),
   n |-> IF ~is_dispatcher(ctx) THEN s.n + 1 ELSE s.n]

pick_next_lifo(s) ==
  IF s.q # <<>>
    THEN LET ctx == s.q[Len(s.q)]
         IN [q |-> SubSeq(s.q, 1, Len(s.q) - 1),
             n |-> IF ~is_dispatcher(ctx) THEN s.n - 1 ELSE s.n,
             ctx |-> ctx]
    ELSE [q |-> s.q, n |-> s.n, ctx |-> NULL]

pick_next(s) ==
  IF s.q # <<>>
    THEN LET ctx == Head(s.q)
         IN [q |-> Tail(s.q),
             n |-> IF ~is_dispatcher(ctx) THEN s.n - 1 ELSE s.n,
             ctx |-> ctx]
    ELSE [q |-> s.q, n |-> s.n, ctx |-> NULL]

has_ready_fibers == 0 < counter_

----------------------------------------------------------------------------
(* The sentinel timer.  A timer state is a record [expiry, pending, hq]:   *)
(* the expiry time, the number of waits pending on it and the handlers     *)
(* the io_context has ready to run.                                        *)

TM == [expiry |-> timerExpiry, pending |-> timerPending, hq |-> handlerQ]

TimerHandler(ec) == [kind |-> "timer", ec |-> ec, w |-> NULL]
WakeHandler(w) == [kind |-> "wake", ec |-> "ok", w |-> w]

RECURSIVE Repeat(_, _)
Repeat(x, k) == IF k = 0 THEN <<>> ELSE <<x>> \o Repeat(x, k - 1)

\* steady_timer::expires_at: every pending wait completes with
\* operation_aborted, then the expiry is set.
expires_at(tm, t) ==
  [expiry |-> t, pending |-> 0,
   hq |-> tm.hq \o Repeat(TimerHandler("operation_aborted"), tm.pending)]

\* steady_timer::async_wait: one more wait pends on the timer.
async_wait(tm) == [tm EXCEPT !.pending = @ + 1]

\* The timer part of suspend_until.
suspend_timer(tm, abs_time) ==
  IF TimeMax # abs_time
    THEN async_wait(expires_at(tm, abs_time))
    ELSE tm

\* The timer part of notify.
notify_timer_swapped(tm) == async_wait(expires_at(tm, now))

notify_timer(tm) == expires_at(async_wait(tm), now)

----------------------------------------------------------------------------
(* Initial state: the constructor has run, the dispatcher is linked and    *)
(* the thread's main fiber is about to enter loop().                       *)

SchedInit ==
  /\ rqueue = <<DISP>>
  /\ counter_ = 0
  /\ active = MAIN
  /\ timerExpiry = 0
  /\ timerPending = 0
  /\ handlerQ = <<>>
  /\ now = 0

LoopInit ==
  /\ mainpc = "top"
  /\ wstate = [w \in Workers |-> "io"]
  /\ wdeadline = [w \in Workers |-> 0]
  /\ wsteps = 0
  /\ remoteReady = <<>>
  /\ stopped = FALSE
  /\ workGuard = TRUE


\* server() has been started: it has allocated its first Connection and
\* waits in async_accept.
SrvInit ==
  /\ srvpc = "accept"
  /\ cpu = NOBODY
  /\ listenerOpen = TRUE
  /\ pendingConn = 1
  /\ cstate = [c \in Conns |-> IF c = 1 THEN "pending" ELSE "free"]
  /\ clist = <<>>
  /\ sockOpen = [c \in Conns |-> FALSE]
  /\ srvWake = FALSE
  /\ doneNotified = FALSE

EchoInit ==
  /\ cres = [c \in Conns |-> NoResult]
  /\ data = [c \in Conns |-> <<>>]
  /\ wrem = [c \in Conns |-> <<>>]
  /\ inbuf = [c \in Conns |-> <<>>]
  /\ peerClosed = [c \in Conns |-> FALSE]
  /\ sentLog = [c \in Conns |-> <<>>]
  /\ echoed = [c \in Conns |-> <<>>]

ConnHistInit ==
  /\ destroyed = [c \in Conns |-> 0]
  /\ everLinked = [c \in Conns |-> FALSE]

\* Done done; in main: nobody holds the mutex, nobody waits, main is about to
\* call done.wait()
DoneInit ==
  /\ dmutex = FREE
  /\ dcond = {}
  /\ waitpc = "call"
  /\ condNotified = FALSE

ServerInit == SrvInit /\ EchoInit /\ ConnHistInit /\ DoneInit

SQE(op, fd, user_data, link) ==
  [op |-> op, fd |-> fd, data |-> user_data, link |-> link]

NoCall == [ev |-> NullData, res |-> 0]
NoBatch == [n |-> 0, i |-> 0, adv |-> 0]

\* main() up to mgr.Run(): the listening socket has its event and one
\* poll-add on the submission ring
UringInit(flag) ==
  /\ linked_ske = flag
  /\ sq = <<SQE("poll", LFD, Ev(LFD), FALSE)>>
  /\ kern = EmptyBag
  /\ cq = <<>>
  /\ batch = NoBatch
  /\ upc = "submit"
  /\ ucrash = "none"
  /\ cb_ = [e \in Events |-> e = Ev(LFD)]
  /\ state_ = [fd \in Fds |-> "none"]
  /\ sockOps = [fd \in Fds |-> <<>>]
  /\ udec = [fd \in Fds |-> 0]
  /\ conn = [fd \in Fds |-> "none"]
  /\ rcvbuf = [fd \in Fds |-> 0]
  /\ upeerClosed = [fd \in Fds |-> FALSE]
  /\ usockErr = [fd \in Fds |-> FALSE]
  /\ ulast = NoCall
  /\ ucalls = 0
  /\ ucqes = [fd \in Fds |-> 0]
  /\ usends = [fd \in Fds |-> 0]
  /\ ubytesSent = [fd \in Fds |-> 0]
  /\ ushort = [fd \in Fds |-> FALSE]

\* an Executor before Run, with --map_limit = limit
NoFaults == [parse |-> 0, throws |-> 0]

PipeInit(limit, flt) ==
  /\ closes = 0
  /\ processed = [f \in Files |-> 0]
  /\ parse_errors = [r \in Reactors |-> 0]
  /\ parse_errs = -1
  /\ yields = [r \in Reactors |-> 0]
  /\ faults = flt
  /\ thrown = {}
  /\ terminated = FALSE
  /\ map_limit = limit
  /\ prun = "start"
  /\ pvisited = {}
  /\ nextFile = 1
  /\ file_name_q_ = <<>>
  /\ fqState = "null"
  /\ per_io_ = [r \in Reactors |-> "null"]
  /\ stop_early = [r \in Reactors |-> FALSE]
  /\ wpc = [r \in Reactors |-> "none"]
  /\ wleft = [r \in Reactors |-> 0]
  /\ rqlen = [r \in Reactors |-> 0]
  /\ closing = [r \in Reactors |-> FALSE]
  /\ mpc = [r \in Reactors |-> "none"]
  /\ record_num = [r \in Reactors |-> 0]
  /\ mapped = [r \in Reactors |-> 0]
  /\ skipped = [r \in Reactors |-> 0]
  /\ pushed = [r \in Reactors |-> 0]
  /\ spc = [r \in Reactors |-> "none"]
  /\ flushed = [r \in Reactors |-> FALSE]
  /\ stoppc = "idle"
  /\ svisited = {}
  /\ pcrash = FALSE

NoOp == [op |-> "none", arg |-> 0, ctx |-> NULL, pend |-> 0]

HistInit ==
  /\ lastOp = NoOp
  /\ enqLog = <<DISP>>
  /\ pickLog = <<>>

----------------------------------------------------------------------------
(* AlgoSpec: the algorithm driven through its interface, one call per step *)

InQueue(f) == \E i \in DOMAIN rqueue : rqueue[i] = f

\* awakened(ctx): ctx is not linked (asserted); the running fiber is
\* passed only when it yields, i.e. when another fiber can be picked.
A_awakened(f) ==
  /\ ~InQueue(f)
  /\ f = active => rqueue # <<>>
  /\ Len(enqLog) < MaxLog
  /\ LET s == awakened(RQ, f)
     IN /\ rqueue' = s.q
        /\ counter_' = s.n
  /\ enqLog' = Append(enqLog, f)
  /\ lastOp' = [op |-> "awakened", arg |-> 0, ctx |-> f, pend |-> timerPending]
  /\ UNCHANGED <<active, timerExpiry, timerPending, handlerQ, now, pickLog>>
  /\ UNCHANGED loopVars
  /\ UNCHANGED outsideSched

\* pick_next(): the caller resumes the fiber it is handed.
A_pick_next ==
  /\ LET s == pick_next(RQ)
     IN /\ rqueue' = s.q
        /\ counter_' = s.n
        /\ active' = IF s.ctx # NULL THEN s.ctx ELSE active
        /\ pickLog' = IF s.ctx # NULL THEN Append(pickLog, s.ctx) ELSE pickLog
        /\ lastOp' = [op |-> "pick_next", arg |-> Len(rqueue), ctx |-> s.ctx,
                      pend |-> timerPending]
  /\ UNCHANGED <<timerExpiry, timerPending, handlerQ, now, enqLog>>
  /\ UNCHANGED loopVars
  /\ UNCHANGED outsideSched

\* condition_variable::notify_one on cnd_: the loop fiber, if it waits in
\* cnd_.wait, is scheduled (awakened) and will return from the wait.
cnd_notify_one_lost(s) ==
  /\ rqueue' = s.q
  /\ counter_' = s.n
  /\ mainpc' = mainpc

cnd_notify_one(s) ==
  IF mainpc = "wait"
    THEN LET s1 == awakened(s, MAIN)
         IN /\ rqueue' = s1.q
            /\ counter_' = s1.n
            /\ mainpc' = "top"
    ELSE /\ rqueue' = s.q
         /\ counter_' = s.n
         /\ mainpc' = mainpc

\* round_robin::suspend_until, called with the ready queue in state s
suspend_until(s, abs_time) ==
  /\ LET tm == suspend_timer(TM, abs_time)
     IN /\ timerExpiry' = tm.expiry
        /\ timerPending' = tm.pending
        /\ handlerQ' = tm.hq
  /\ cnd_notify_one(s)

\* round_robin::notify
notify ==
  LET tm == notify_timer(TM)
  IN /\ timerExpiry' = tm.expiry
     /\ timerPending' = tm.pending
     /\ handlerQ' = tm.hq

\* The timer reaches its expiry: every pending wait completes successfully.
timer_expire ==
  /\ timerPending > 0
  /\ timerExpiry <= now
  /\ handlerQ' = handlerQ \o Repeat(TimerHandler("ok"), timerPending)
  /\ timerPending' = 0
  /\ UNCHANGED timerExpiry

restLoopVars == <<wstate, wdeadline, wsteps, remoteReady, stopped, workGuard>>

A_suspend_until(t) ==
  /\ Len(handlerQ) < MaxHandlers
  /\ suspend_until(RQ, t)
  /\ lastOp' = [op |-> "suspend_until", arg |-> t, ctx |-> NULL, pend |-> timerPending]
  /\ UNCHANGED <<active, now, enqLog, pickLog>>
  /\ UNCHANGED restLoopVars
  /\ UNCHANGED outsideSched

A_notify ==
  /\ Len(handlerQ) < MaxHandlers
  /\ notify
  /\ lastOp' = [op |-> "notify", arg |-> now, ctx |-> NULL, pend |-> timerPending]
  /\ UNCHANGED <<rqueue, counter_, active, now, enqLog, pickLog>>
  /\ UNCHANGED loopVars
  /\ UNCHANGED outsideSched

A_timer_expire ==
  /\ timer_expire
  /\ lastOp' = [op |-> "expire", arg |-> now, ctx |-> NULL, pend |-> timerPending]
  /\ UNCHANGED <<rqueue, counter_, active, now, enqLog, pickLog>>
  /\ UNCHANGED loopVars
  /\ UNCHANGED outsideSched

A_tick ==
  /\ now < MaxTime
  /\ now' = now + 1
  /\ lastOp' = [op |-> "tick", arg |-> now, ctx |-> NULL, pend |-> timerPending]
  /\ UNCHANGED <<rqueue, counter_, active, timerExpiry, timerPending, handlerQ,
                 enqLog, pickLog>>
  /\ UNCHANGED loopVars
  /\ UNCHANGED outsideSched

\* The io_context invokes the first ready handler.
A_run_handler ==
  /\ handlerQ # <<>>
  /\ handlerQ' = Tail(handlerQ)
  /\ lastOp' = [op |-> "handler", arg |-> 0, ctx |-> NULL, pend |-> timerPending]
  /\ UNCHANGED <<rqueue, counter_, active, timerExpiry, timerPending, now,
                 enqLog, pickLog>>
  /\ UNCHANGED loopVars
  /\ UNCHANGED outsideSched

AlgoNext ==
  \/ \E f \in Fibers : A_awakened(f)
  \/ A_pick_next
  \/ \E t \in Deadlines \cup {TimeMax} : A_suspend_until(t)
  \/ A_notify
  \/ A_timer_expire
  \/ A_tick
  \/ A_run_handler

vars == <<schedVars, loopVars, histVars, srvVars, echoVars, connHist, doneVars,
          uringVars, pipeVars, varzVars>>

\* the fiber runtime and the echo server before anything has run
\* static VarzListNode* varz_global_list = nullptr; no node exists, nobody holds
\* g_varz_lock
ListInit ==
  /\ global_list = NULLNODE
  /\ next_ = [n \in Nodes |-> NULLNODE]
  /\ prev_ = [n \in Nodes |-> NULLNODE]
  /\ liveNodes = {}
  /\ g_varz_lock = 0
  /\ iterNode = NULLNODE
  /\ iterated = <<>>
  /\ ctorOrder = <<>>
  /\ lastDtor = "none"
  /\ danglingUse = FALSE

\* a VarzMapCount after construction: empty map, free lock, no call yet
MapInit ==
  /\ rw_spinlock_ = [readers |-> 0, writer |-> NOTHREAD]
  /\ map_counts_ = << >>
  /\ vpc = [t \in Threads |-> "idle"]
  /\ vcall = [t \in Threads |-> NoVarzCall]
  /\ vholds = [t \in Threads |-> NoHold]
  /\ callsLeft = MaxCalls
  /\ inserts = [k \in Keys |-> 0]
  /\ deltaSum = [k \in Keys |-> 0]
  /\ setKeys = {}
  /\ dfatal = FALSE

VarzInit == ListInit /\ MapInit

CoreInit == SchedInit /\ LoopInit /\ HistInit /\ ServerInit /\ VarzInit

AlgoInit == CoreInit /\ UringInit(FALSE) /\ PipeInit(0, NoFaults)

AlgoSpec == AlgoInit /\ [][AlgoNext]_vars

----------------------------------------------------------------------------
(* LoopSpec: round_robin::loop running on the thread's main fiber, the     *)
(* dispatcher fiber calling pick_next / suspend_until, worker fibers, and  *)
(* the io_context delivering completions.  A step is what one fiber does   *)
(* between two context switches.                                           *)

Running == mainpc # "exited"

\* The running fiber gives up the processor: the next fiber is picked and
\* resumed.  s is the ready queue after whatever the fiber linked.
SwitchFrom(s) ==
  LET r == pick_next(s)
  IN /\ rqueue' = r.q
     /\ counter_' = r.n
     /\ active' = IF r.ctx # NULL THEN r.ctx ELSE active

RECURSIVE LinkAll(_, _)
LinkAll(s, fs) == IF fs = <<>> THEN s ELSE LinkAll(awakened(s, Head(fs)), Tail(fs))

\* sleeping workers, earliest wake time first
RECURSIVE SortByDeadline(_)
SortByDeadline(ws) ==
  IF ws = {} THEN <<>>
  ELSE LET w == CHOOSE x \in ws : \A y \in ws :
                  \/ wdeadline[x] < wdeadline[y]
                  \/ wdeadline[x] = wdeadline[y] /\ x[2] <= y[2]
       IN <<w>> \o SortByDeadline(ws \ {w})

Sleepers == {w \in Workers : wstate[w] = "sleep"}
Due == {w \in Sleepers : wdeadline[w] <= now}

EarliestDeadline ==
  IF Sleepers \ Due = {} THEN TimeMax
  ELSE CHOOSE t \in Deadlines :
         /\ \E w \in Sleepers \ Due : wdeadline[w] = t
         /\ \A w \in Sleepers \ Due : t <= wdeadline[w]

\* The handler of suspend_timer_ and the completion handler of a fiber's
\* asynchronous operation, run by poll() or run_one() on the loop fiber.
\* nextpc is where loop() continues when the handler has returned.
run_handler(h, nextpc) ==
  /\ handlerQ' = Tail(handlerQ)
  /\ mainpc' = nextpc
  /\ IF h.kind = "timer"
       THEN \* this_fiber::yield()
            /\ SwitchFrom(awakened(RQ, MAIN))
            /\ UNCHANGED wstate
       ELSE /\ LET s == awakened(RQ, h.w)
               IN rqueue' = s.q /\ counter_' = s.n
            /\ wstate' = [wstate EXCEPT ![h.w] = "run"]
            /\ UNCHANGED active

\* while ( ! io_svc_->stopped() ) { if ( has_ready_fibers() ) ... else ...
loop_top ==
  /\ active = MAIN
  /\ mainpc = "top"
  /\ mainpc' = IF stopped THEN "exited"
               ELSE IF has_ready_fibers THEN "poll" ELSE "run_one"
  /\ UNCHANGED <<schedVars, restLoopVars, histVars>>
  /\ UNCHANGED outsideSched

\* while ( io_svc_->poll() ); then cnd_.wait(lk)
loop_poll ==
  /\ active = MAIN
  /\ mainpc = "poll"
  /\ IF ~stopped /\ handlerQ # <<>>
       THEN run_handler(Head(handlerQ), "poll")
       ELSE /\ mainpc' = "wait"
            /\ SwitchFrom(RQ)
            /\ UNCHANGED <<handlerQ, wstate>>
  /\ UNCHANGED <<timerExpiry, timerPending, now>>
  /\ UNCHANGED <<wdeadline, wsteps, remoteReady, stopped, workGuard>>
  /\ UNCHANGED histVars
  /\ UNCHANGED outsideSched

OutOfWork ==
  /\ ~workGuard
  /\ handlerQ = <<>>
  /\ timerPending = 0
  /\ \A w \in Workers : wstate[w] # "io"

\* if ( ! io_svc_->run_one() ) break;   inverted
loop_run_one_inverted ==
  /\ active = MAIN
  /\ mainpc = "run_one"
  /\ IF stopped \/ OutOfWork
       THEN /\ mainpc' = "top"
            /\ stopped' = TRUE
            /\ UNCHANGED <<schedVars, wstate>>
       ELSE /\ handlerQ # <<>>
            /\ run_handler(Head(handlerQ), "exited")
            /\ UNCHANGED <<timerExpiry, timerPending, now, stopped>>
  /\ UNCHANGED <<wdeadline, wsteps, remoteReady, workGuard>>
  /\ UNCHANGED histVars
  /\ UNCHANGED outsideSched

\* if ( ! io_svc_->run_one() ) break;
\* run_one returns 0 when the io_context is stopped or runs out of work
\* (which stops it); otherwise it blocks until one handler has run.
loop_run_one ==
  /\ active = MAIN
  /\ mainpc = "run_one"
  /\ IF stopped \/ OutOfWork
       THEN /\ mainpc' = "exited"
            /\ stopped' = TRUE
            /\ UNCHANGED <<schedVars, wstate>>
       ELSE /\ handlerQ # <<>>
            /\ run_handler(Head(handlerQ), "top")
            /\ UNCHANGED <<timerExpiry, timerPending, now, stopped>>
  /\ UNCHANGED <<wdeadline, wsteps, remoteReady, workGuard>>
  /\ UNCHANGED histVars
  /\ UNCHANGED outsideSched

\* One turn of the dispatcher fiber: fibers made ready remotely and sleepers
\* whose time has come are linked, then the next fiber is picked and resumed
\* (the dispatcher is linked again behind it), or suspend_until is called.
Dispatch ==
  /\ Running
  /\ active = DISP
  /\ LET s1 == LinkAll(RQ, remoteReady)
         s2 == LinkAll(s1, SortByDeadline(Due))
         r == pick_next(s2)
     IN /\ wstate' = [w \in Workers |->
                        IF w \in Due \/ (\E i \in DOMAIN remoteReady : remoteReady[i] = w)
                          THEN "run" ELSE wstate[w]]
        /\ remoteReady' = <<>>
        /\ IF r.ctx # NULL
             THEN /\ active' = r.ctx
                  /\ LET s3 == awakened([q |-> r.q, n |-> r.n], DISP)
                     IN rqueue' = s3.q /\ counter_' = s3.n
                  /\ UNCHANGED <<timerExpiry, timerPending, handlerQ, mainpc>>
             ELSE /\ suspend_until([q |-> r.q, n |-> r.n], EarliestDeadline)
                  /\ UNCHANGED active
  /\ UNCHANGED <<now, wdeadline, wsteps, stopped, workGuard>>
  /\ UNCHANGED histVars
  /\ UNCHANGED outsideSched

\* A worker fiber calls this_fiber::yield().
W_yield(w) ==
  /\ Running
  /\ active = w
  /\ wsteps < MaxSteps
  /\ wsteps' = wsteps + 1
  /\ SwitchFrom(awakened(RQ, w))
  /\ UNCHANGED <<timerExpiry, timerPending, handlerQ, now>>
  /\ UNCHANGED <<mainpc, wstate, wdeadline, remoteReady, stopped, workGuard>>
  /\ UNCHANGED histVars
  /\ UNCHANGED outsideSched

\* A worker fiber suspends: in an asynchronous operation ("io"), on a
\* condition another thread signals ("remote"), or for good ("term").
W_block(w, how) ==
  /\ Running
  /\ active = w
  /\ how # "term" => wsteps < MaxSteps
  /\ wsteps' = IF how # "term" THEN wsteps + 1 ELSE wsteps
  /\ wstate' = [wstate EXCEPT ![w] = how]
  /\ SwitchFrom(RQ)
  /\ UNCHANGED <<timerExpiry, timerPending, handlerQ, now>>
  /\ UNCHANGED <<mainpc, wdeadline, remoteReady, stopped, workGuard>>
  /\ UNCHANGED histVars
  /\ UNCHANGED outsideSched

\* A worker fiber sleeps until t.
W_sleep(w, t) ==
  /\ Running
  /\ active = w
  /\ wsteps < MaxSteps
  /\ wsteps' = wsteps + 1
  /\ wstate' = [wstate EXCEPT ![w] = "sleep"]
  /\ wdeadline' = [wdeadline EXCEPT ![w] = t]
  /\ SwitchFrom(RQ)
  /\ UNCHANGED <<timerExpiry, timerPending, handlerQ, now>>
  /\ UNCHANGED <<mainpc, remoteReady, stopped, workGuard>>
  /\ UNCHANGED histVars
  /\ UNCHANGED outsideSched

\* The operation a worker waits for completes: its handler becomes ready.
IoComplete(w) ==
  /\ Running
  /\ wstate[w] = "io"
  /\ wstate' = [wstate EXCEPT ![w] = "ioq"]
  /\ handlerQ' = Append(handlerQ, WakeHandler(w))
  /\ UNCHANGED <<rqueue, counter_, active, timerExpiry, timerPending, now>>
  /\ UNCHANGED <<mainpc, wdeadline, wsteps, remoteReady, stopped, workGuard>>
  /\ UNCHANGED histVars
  /\ UNCHANGED outsideSched

\* Another thread makes a worker ready: it is handed over and notify() runs.
RemoteWake(w) ==
  /\ Running
  /\ wstate[w] = "remote"
  /\ wstate' = [wstate EXCEPT ![w] = "remoteq"]
  /\ remoteReady' = Append(remoteReady, w)
  /\ notify
  /\ UNCHANGED <<rqueue, counter_, active, now>>
  /\ UNCHANGED <<mainpc, wdeadline, wsteps, stopped, workGuard>>
  /\ UNCHANGED histVars
  /\ UNCHANGED outsideSched

L_timer_expire ==
  /\ Running
  /\ timer_expire
  /\ UNCHANGED <<rqueue, counter_, active, now>>
  /\ UNCHANGED <<loopVars, histVars>>
  /\ UNCHANGED outsideSched

L_tick ==
  /\ Running
  /\ now < MaxTime
  /\ now' = now + 1
  /\ UNCHANGED <<rqueue, counter_, active, timerExpiry, timerPending, handlerQ>>
  /\ UNCHANGED <<loopVars, histVars>>
  /\ UNCHANGED outsideSched

\* io_context::stop(), from a fiber or from the thread that owns the pool
Stop ==
  /\ Running
  /\ ~stopped
  /\ stopped' = TRUE
  /\ UNCHANGED <<schedVars, histVars>>
  /\ UNCHANGED <<mainpc, wstate, wdeadline, wsteps, remoteReady, workGuard>>
  /\ UNCHANGED outsideSched

\* rr_service::shutdown_service, run when the io_context is destroyed
shutdown_service ==
  /\ ~Running
  /\ workGuard
  /\ workGuard' = FALSE
  /\ UNCHANGED <<schedVars, histVars>>
  /\ UNCHANGED <<mainpc, wstate, wdeadline, wsteps, remoteReady, stopped>>
  /\ UNCHANGED outsideSched

FiberStep ==
  \/ loop_top
  \/ loop_poll
  \/ loop_run_one
  \/ Dispatch
  \/ \E w \in Workers : W_yield(w)
  \/ \E w \in Workers : \E how \in {"io", "remote", "term"} : W_block(w, how)
  \/ \E w \in Workers : \E t \in Deadlines : W_sleep(w, t)

LoopNext ==
  \/ loop_top
  \/ loop_poll
  \/ loop_run_one
  \/ Dispatch
  \/ \E w \in Workers : W_yield(w)
  \/ \E w \in Workers : \E how \in {"io", "remote", "term"} : W_block(w, how)
  \/ \E w \in Workers : \E t \in Deadlines : W_sleep(w, t)
  \/ \E w \in Workers : IoComplete(w)
  \/ \E w \in Workers : RemoteWake(w)
  \/ L_timer_expire
  \/ L_tick
  \/ Stop
  \/ shutdown_service

LoopSpec == AlgoInit /\ [][LoopNext]_vars

\* Fibers run whenever they can: the thread executes the running fiber.
LoopLiveSpec == LoopSpec /\ WF_vars(FiberStep)

\* sanity of the model: a fiber other than the dispatcher runs only while
\* the dispatcher is linked, and the dispatcher idles only to wake the loop
LoopSane ==
  /\ (Running /\ active # DISP) => InQueue(DISP)
  /\ (Running /\ active = DISP /\ rqueue = <<>> /\ Due = {} /\ remoteReady = <<>>)
        => mainpc = "wait"
  /\ \A w \in Workers : (InQueue(w) \/ active = w) => wstate[w] = "run"
  /\ timerPending <= 1

----------------------------------------------------------------------------
(* ServerSpec: the accept loop of server(), one session() fiber per        *)
(* accepted Connection, and the peers.  All fibers share one thread, so a  *)
(* fiber runs from one suspension point to the next without interference:  *)
(* cpu names the fiber that is inside such a run.  What the peers and the  *)
(* sockets do meanwhile is seen by the fibers only after the run, so it is *)
(* taken to happen between runs.                                           *)

Min(a, b) == IF a <= b THEN a ELSE b

InList(c) == \E i \in DOMAIN clist : clist[i] = c

\* clist.push_back(*conn)
push_back(l, c) == Append(l, c)

\* conn->hook_.unlink()
unlink(l, c) == SelectSeq(l, LAMBDA x : x # c)

FreeConns == {c \in Conns : cstate[c] = "free"}
NextFree == CHOOSE c \in FreeConns : \A d \in FreeConns : c <= d

Established(c) ==
  cstate[c] \in {"start", "read", "readDone", "write", "writeDone"}

\* async_accept succeeded: the Connection is linked, its session fiber is
\* spawned, and the loop allocates the next Connection and accepts again.
server_accept_ok ==
  /\ srvpc = "accept"
  /\ cpu = NOBODY
  /\ listenerOpen
  /\ FreeConns # {}
  /\ clist' = push_back(clist, pendingConn)
  /\ everLinked' = [everLinked EXCEPT ![pendingConn] = TRUE]
  /\ sockOpen' = [sockOpen EXCEPT ![pendingConn] = TRUE]
  /\ cstate' = [cstate EXCEPT ![pendingConn] = "start", ![NextFree] = "pending"]
  /\ pendingConn' = NextFree
  /\ UNCHANGED <<srvpc, cpu, listenerOpen, srvWake, doneNotified, destroyed>>
  /\ UNCHANGED <<echoVars, outsideServer>>

\* the Connection is linked before ec is tested
server_accept_fail_linked ==
  /\ srvpc = "accept"
  /\ cpu = NOBODY
  /\ everLinked' = [everLinked EXCEPT ![pendingConn] = TRUE]
  /\ cstate' = [cstate EXCEPT ![pendingConn] = "failed"]
  /\ destroyed' = [destroyed EXCEPT ![pendingConn] = @ + 1]
  /\ srvpc' = "clean"
  /\ cpu' = SERVER
  /\ UNCHANGED <<listenerOpen, pendingConn, clist, sockOpen, srvWake, doneNotified>>
  /\ UNCHANGED <<echoVars, outsideServer>>

\* async_accept failed (the acceptor was closed, or another error): the
\* exception leaves the loop and the unique_ptr destroys the Connection.
server_accept_fail ==
  /\ srvpc = "accept"
  /\ cpu = NOBODY
  /\ cstate' = [cstate EXCEPT ![pendingConn] = "failed"]
  /\ destroyed' = [destroyed EXCEPT ![pendingConn] = @ + 1]
  /\ srvpc' = "clean"
  /\ cpu' = SERVER
  /\ UNCHANGED <<listenerOpen, pendingConn, clist, sockOpen, srvWake, doneNotified,
                 everLinked>>
  /\ UNCHANGED <<echoVars, outsideServer>>

\* for (it : clist) it->socket.close();
server_close_all ==
  /\ srvpc = "clean"
  /\ cpu = SERVER
  /\ sockOpen' = [c \in Conns |-> IF InList(c) THEN FALSE ELSE sockOpen[c]]
  /\ srvpc' = "waitcheck"
  /\ UNCHANGED <<cpu, listenerOpen, pendingConn, cstate, clist, srvWake, doneNotified>>
  /\ UNCHANGED <<echoVars, connHist, outsideServer>>

\* the wait is left out: Done is notified at once
empty_list_wait_skipped ==
  /\ dmutex = FREE
  /\ srvpc' = "done"
  /\ doneNotified' = TRUE
  /\ srvWake' = FALSE
  /\ cpu' = NOBODY

\* empty_list.wait(lk, [&clist] { return clist.empty(); }); sd->done->notify();
\* the predicate is tested before each wait. notify() starts with
\* { lock(mutex); ready = true; }, which needs the mutex; its cond.notify_one()
\* is Done_notify_one.
empty_list_wait ==
  /\ IF clist = <<>>
       THEN dmutex = FREE /\ srvpc' = "done" /\ doneNotified' = TRUE
       ELSE srvpc' = "wait" /\ UNCHANGED doneNotified
  /\ srvWake' = FALSE
  /\ cpu' = NOBODY

server_wait ==
  /\ srvpc = "waitcheck"
  /\ cpu = SERVER
  /\ empty_list_wait
  /\ UNCHANGED <<listenerOpen, pendingConn, cstate, clist, sockOpen>>
  /\ UNCHANGED <<echoVars, connHist, outsideServer>>

\* the server fiber, woken by notify_one, runs again
server_wake ==
  /\ srvpc = "wait"
  /\ srvWake
  /\ cpu = NOBODY
  /\ empty_list_wait
  /\ UNCHANGED <<listenerOpen, pendingConn, cstate, clist, sockOpen>>
  /\ UNCHANGED <<echoVars, connHist, outsideServer>>

\* The session fiber runs for the first time and issues async_read_some.
session_start(c) ==
  /\ cstate[c] = "start"
  /\ cpu = NOBODY
  /\ cstate' = [cstate EXCEPT ![c] = "read"]
  /\ UNCHANGED <<srvpc, cpu, listenerOpen, pendingConn, clist, sockOpen, srvWake,
                 doneNotified>>
  /\ UNCHANGED <<echoVars, connHist, outsideServer>>

\* async_read_some completes: with some of the bytes that have arrived, with
\* eof once the peer has closed and everything was read, or with an error
\* (always so once the socket has been closed).
read_complete(c) ==
  /\ cstate[c] = "read"
  /\ cpu = NOBODY
  /\ cstate' = [cstate EXCEPT ![c] = "readDone"]
  /\ \/ /\ sockOpen[c]
        /\ inbuf[c] # <<>>
        /\ \E n \in 1..Min(max_length, Len(inbuf[c])) :
             /\ data' = [data EXCEPT ![c] = SubSeq(inbuf[c], 1, n)]
             /\ inbuf' = [inbuf EXCEPT ![c] = SubSeq(inbuf[c], n + 1, Len(inbuf[c]))]
             /\ cres' = [cres EXCEPT ![c] = [ec |-> "ok", n |-> n]]
     \/ /\ sockOpen[c]
        /\ inbuf[c] = <<>>
        /\ peerClosed[c]
        /\ cres' = [cres EXCEPT ![c] = [ec |-> "eof", n |-> 0]]
        /\ UNCHANGED <<data, inbuf>>
     \/ /\ cres' = [cres EXCEPT ![c] = [ec |-> "error", n |-> 0]]
        /\ UNCHANGED <<data, inbuf>>
  /\ UNCHANGED <<srvpc, cpu, listenerOpen, pendingConn, clist, sockOpen, srvWake,
                 doneNotified>>
  /\ UNCHANGED <<wrem, peerClosed, sentLog, echoed>>
  /\ UNCHANGED <<connHist, outsideServer>>

\* After async_read_some: eof breaks out of the loop, an error throws (and
\* is caught), data is handed to async_write.
session_after_read(c) ==
  /\ cstate[c] = "readDone"
  /\ cpu = NOBODY
  /\ IF cres[c].ec # "ok"
       THEN /\ cstate' = [cstate EXCEPT ![c] = "x_close"]
            /\ cpu' = SESSION(c)
            /\ UNCHANGED wrem
       ELSE /\ cstate' = [cstate EXCEPT ![c] = "write"]
            /\ wrem' = [wrem EXCEPT ![c] = SubSeq(data[c], 1, cres[c].n)]
            /\ UNCHANGED cpu
  /\ UNCHANGED <<srvpc, listenerOpen, pendingConn, clist, sockOpen, srvWake, doneNotified>>
  /\ UNCHANGED <<cres, data, inbuf, peerClosed, sentLog, echoed>>
  /\ UNCHANGED <<connHist, outsideServer>>

\* one write_some is taken for the whole write
write_done_first(rest) == TRUE

\* asio::async_write completes when nothing is left to write
write_done(rest) == rest = <<>>

\* One step of the composed async_write: some of the remaining bytes reach
\* the peer, or the write fails (always so once the socket has been closed).
write_some(c) ==
  /\ cstate[c] = "write"
  /\ cpu = NOBODY
  /\ \/ /\ sockOpen[c]
        /\ \E k \in 1..Len(wrem[c]) :
             LET rest == SubSeq(wrem[c], k + 1, Len(wrem[c]))
             IN /\ echoed' = [echoed EXCEPT ![c] = @ \o SubSeq(wrem[c], 1, k)]
                /\ wrem' = [wrem EXCEPT ![c] = rest]
                /\ IF write_done(rest)
                     THEN /\ cstate' = [cstate EXCEPT ![c] = "writeDone"]
                          /\ cres' = [cres EXCEPT ![c] = [ec |-> "ok", n |-> Len(data[c])]]
                     ELSE UNCHANGED <<cstate, cres>>
     \/ /\ cstate' = [cstate EXCEPT ![c] = "writeDone"]
        /\ cres' = [cres EXCEPT ![c] = [ec |-> "error", n |-> 0]]
        /\ UNCHANGED <<echoed, wrem>>
  /\ UNCHANGED <<srvpc, cpu, listenerOpen, pendingConn, clist, sockOpen, srvWake,
                 doneNotified>>
  /\ UNCHANGED <<data, inbuf, peerClosed, sentLog>>
  /\ UNCHANGED <<connHist, outsideServer>>

\* After async_write: an error leaves the loop, otherwise the next read.
session_after_write(c) ==
  /\ cstate[c] = "writeDone"
  /\ cpu = NOBODY
  /\ IF cres[c].ec # "ok"
       THEN /\ cstate' = [cstate EXCEPT ![c] = "x_close"]
            /\ cpu' = SESSION(c)
       ELSE /\ cstate' = [cstate EXCEPT ![c] = "read"]
            /\ UNCHANGED cpu
  /\ UNCHANGED <<srvpc, listenerOpen, pendingConn, clist, sockOpen, srvWake, doneNotified>>
  /\ UNCHANGED <<echoVars, connHist, outsideServer>>

\* sock->close();
session_close(c) ==
  /\ cstate[c] = "x_close"
  /\ cpu = SESSION(c)
  /\ sockOpen' = [sockOpen EXCEPT ![c] = FALSE]
  /\ cstate' = [cstate EXCEPT ![c] = "x_unlink"]
  /\ UNCHANGED <<srvpc, cpu, listenerOpen, pendingConn, clist, srvWake, doneNotified>>
  /\ UNCHANGED <<echoVars, connHist, outsideServer>>

\* conn->hook_.unlink();
session_unlink(c) ==
  /\ cstate[c] = "x_unlink"
  /\ cpu = SESSION(c)
  /\ clist' = unlink(clist, c)
  /\ cstate' = [cstate EXCEPT ![c] = "x_notify"]
  /\ UNCHANGED <<srvpc, cpu, listenerOpen, pendingConn, sockOpen, srvWake, doneNotified>>
  /\ UNCHANGED <<echoVars, connHist, outsideServer>>

\* the notification is left out
on_exit_notify_one_missing == UNCHANGED srvWake

\* conn->on_exit->notify_one(): wakes the server if it waits, else nothing
on_exit_notify_one ==
  srvWake' = IF srvpc = "wait" THEN TRUE ELSE srvWake

session_notify(c) ==
  /\ cstate[c] = "x_notify"
  /\ cpu = SESSION(c)
  /\ on_exit_notify_one
  /\ cstate' = [cstate EXCEPT ![c] = "x_delete"]
  /\ UNCHANGED <<srvpc, cpu, listenerOpen, pendingConn, clist, sockOpen, doneNotified>>
  /\ UNCHANGED <<echoVars, connHist, outsideServer>>

\* delete conn; and the fiber ends
session_delete(c) ==
  /\ cstate[c] = "x_delete"
  /\ cpu = SESSION(c)
  /\ destroyed' = [destroyed EXCEPT ![c] = @ + 1]
  /\ cstate' = [cstate EXCEPT ![c] = "gone"]
  /\ cpu' = NOBODY
  /\ UNCHANGED <<srvpc, listenerOpen, pendingConn, clist, sockOpen, srvWake, doneNotified,
                 everLinked>>
  /\ UNCHANGED <<echoVars, outsideServer>>

\* The peer sends its next byte; byte i of a connection has the value i.
client_send(c) ==
  /\ Established(c)
  /\ cpu = NOBODY
  /\ sockOpen[c]
  /\ ~peerClosed[c]
  /\ Len(sentLog[c]) < MaxSend
  /\ sentLog' = [sentLog EXCEPT ![c] = Append(@, Len(@) + 1)]
  /\ inbuf' = [inbuf EXCEPT ![c] = Append(@, Len(sentLog[c]) + 1)]
  /\ UNCHANGED <<cres, data, wrem, peerClosed, echoed>>
  /\ UNCHANGED <<srvVars, connHist, outsideServer>>

\* The peer closes its end.
client_close(c) ==
  /\ Established(c)
  /\ cpu = NOBODY
  /\ ~peerClosed[c]
  /\ peerClosed' = [peerClosed EXCEPT ![c] = TRUE]
  /\ UNCHANGED <<cres, data, wrem, inbuf, sentLog, echoed>>
  /\ UNCHANGED <<srvVars, connHist, outsideServer>>

\* The signal handler: sd->acceptor.close()
close_listener ==
  /\ listenerOpen
  /\ cpu = NOBODY
  /\ listenerOpen' = FALSE
  /\ UNCHANGED <<srvpc, cpu, pendingConn, cstate, clist, sockOpen, srvWake, doneNotified>>
  /\ UNCHANGED <<echoVars, connHist, outsideServer>>

\* sd->done->notify(), after the mutex was released: cond.notify_one() makes
\* one waiter of cond ready; it is lost when nobody waits.
Done_notify_one ==
  /\ srvpc = "done"
  /\ ~condNotified
  /\ condNotified' = TRUE
  /\ IF MAIN_THREAD \in dcond
       THEN dcond' = dcond \ {MAIN_THREAD} /\ waitpc' = "relock"
       ELSE UNCHANGED <<dcond, waitpc>>
  /\ UNCHANGED <<dmutex, srvVars, echoVars, connHist>>
  /\ UNCHANGED <<schedVars, loopVars, histVars, uringVars, pipeVars, varzVars>>

\* done.wait() is entered without the mutex
Done_wait_unlocked ==
  /\ waitpc = "call"
  /\ waitpc' = "test"
  /\ UNCHANGED <<dmutex, dcond, condNotified>>

\* done.wait(): std::unique_lock<fibers::mutex> lock(mutex);
Done_wait_lock ==
  /\ waitpc = "call"
  /\ dmutex = FREE
  /\ dmutex' = MAIN_THREAD
  /\ waitpc' = "test"
  /\ UNCHANGED <<dcond, condNotified>>

\* cond.wait(lock, pred) is while (!pred()) wait(lock): the predicate is tested
\* with the mutex held; when it holds wait() returns and lock is released.
Done_wait_test ==
  /\ waitpc = "test"
  /\ IF doneNotified
       THEN waitpc' = "returned" /\ dmutex' = FREE
       ELSE waitpc' = "enqueue" /\ UNCHANGED dmutex
  /\ UNCHANGED <<dcond, condNotified>>

\* cond.wait(lock): the caller joins the waiters of cond and releases the mutex
Done_wait_sleep ==
  /\ waitpc = "enqueue"
  /\ dcond' = dcond \cup {MAIN_THREAD}
  /\ dmutex' = FREE
  /\ waitpc' = "sleep"
  /\ UNCHANGED condNotified

\* a notified waiter takes the mutex again and tests the predicate once more
Done_wait_relock ==
  /\ waitpc = "relock"
  /\ dmutex = FREE
  /\ dmutex' = MAIN_THREAD
  /\ waitpc' = "test"
  /\ UNCHANGED <<dcond, condNotified>>

\* pool.Stop();
main_stop ==
  /\ waitpc = "returned"
  /\ waitpc' = "stopped"
  /\ UNCHANGED <<dmutex, dcond, condNotified>>

\* pool.Join(); return 0;
main_join ==
  /\ waitpc = "stopped"
  /\ waitpc' = "joined"
  /\ UNCHANGED <<dmutex, dcond, condNotified>>

\* main() from done.wait() on
MainStep ==
  /\ \/ Done_wait_lock
     \/ Done_wait_test
     \/ Done_wait_sleep
     \/ Done_wait_relock
     \/ main_stop
     \/ main_join
  /\ UNCHANGED <<srvVars, echoVars, connHist>>
  /\ UNCHANGED <<schedVars, loopVars, histVars, uringVars, pipeVars, varzVars>>

ServerNext ==
  \/ server_accept_ok
  \/ server_accept_fail
  \/ server_close_all
  \/ server_wait
  \/ server_wake
  \/ \E c \in Conns : session_start(c)
  \/ \E c \in Conns : read_complete(c)
  \/ \E c \in Conns : session_after_read(c)
  \/ \E c \in Conns : write_some(c)
  \/ \E c \in Conns : session_after_write(c)
  \/ \E c \in Conns : session_close(c)
  \/ \E c \in Conns : session_unlink(c)
  \/ \E c \in Conns : session_notify(c)
  \/ \E c \in Conns : session_delete(c)
  \/ \E c \in Conns : client_send(c)
  \/ \E c \in Conns : client_close(c)
  \/ close_listener
  \/ Done_notify_one

ServerSpec == AlgoInit /\ [][ServerNext]_vars

\* main() waiting on the latch while the server accepts clients that send
\* nothing and close
DoneNext ==
  \/ server_accept_ok
  \/ server_accept_fail
  \/ server_close_all
  \/ server_wait
  \/ server_wake
  \/ \E c \in Conns : session_start(c)
  \/ \E c \in Conns : read_complete(c)
  \/ \E c \in Conns : session_after_read(c)
  \/ \E c \in Conns : session_close(c)
  \/ \E c \in Conns : session_unlink(c)
  \/ \E c \in Conns : session_notify(c)
  \/ \E c \in Conns : session_delete(c)
  \/ \E c \in Conns : client_close(c)
  \/ close_listener
  \/ Done_notify_one
  \/ MainStep

DoneSpec == AlgoInit /\ [][DoneNext]_vars

\* what the server fiber does when it can run
ServerStep ==
  \/ ~listenerOpen /\ server_accept_fail
  \/ server_close_all
  \/ server_wait
  \/ server_wake
  \/ Done_notify_one

\* what the session fiber of c does when it can run
SessionStep(c) ==
  \/ session_start(c)
  \/ session_after_read(c)
  \/ session_after_write(c)
  \/ session_close(c)
  \/ session_unlink(c)
  \/ session_notify(c)
  \/ session_delete(c)

\* an operation on a closed socket completes
ClosedIo(c) ==
  /\ ~sockOpen[c]
  /\ (read_complete(c) \/ write_some(c))

\* the bytes all peers have sent
SentInAll ==
  LET n[c \in 0..MaxConn] == IF c = 0 THEN 0 ELSE n[c - 1] + Len(sentLog[c])
  IN  n[MaxConn]

\* the server with peers that send MaxSend bytes between them
ServerLiveNext ==
  \/ server_accept_ok
  \/ server_accept_fail
  \/ server_close_all
  \/ server_wait
  \/ server_wake
  \/ \E c \in Conns : session_start(c)
  \/ \E c \in Conns : read_complete(c)
  \/ \E c \in Conns : session_after_read(c)
  \/ \E c \in Conns : write_some(c)
  \/ \E c \in Conns : session_after_write(c)
  \/ \E c \in Conns : session_close(c)
  \/ \E c \in Conns : session_unlink(c)
  \/ \E c \in Conns : session_notify(c)
  \/ \E c \in Conns : session_delete(c)
  \/ \E c \in Conns : SentInAll < MaxSend /\ client_send(c)
  \/ \E c \in Conns : client_close(c)
  \/ close_listener
  \/ Done_notify_one

\* Ready fibers run, and operations on closed sockets complete.
ServerLiveSpec ==
  /\ AlgoInit
  /\ [][ServerLiveNext]_vars
  /\ WF_vars(ServerStep)
  /\ \A c \in Conns : WF_vars(SessionStep(c))
  /\ \A c \in Conns : WF_vars(ClosedIo(c))

\* The server fiber and the thread of main run when they can.
DoneLiveSpec ==
  /\ DoneSpec
  /\ WF_vars(ServerStep)
  /\ WF_vars(MainStep)

----------------------------------------------------------------------------
(* Claims about the scheduling algorithm (AlgoSpec)                        *)

IsSuspendUntilSame ==
  /\ lastOp'.op = "suspend_until"
  /\ lastOp'.arg # TimeMax
  /\ timerPending > 0
  /\ lastOp'.arg = timerExpiry

\* C1: suspend_until(T) with a finite T equal to the deadline the timer is
\* already armed for leaves the timer alone: the pending wait is neither
\* cancelled (no operation_aborted handler becomes ready) nor re-armed.
C1_SameDeadlineIsNoOp ==
  [][IsSuspendUntilSame =>
       /\ timerPending' = timerPending
       /\ timerExpiry' = timerExpiry
       /\ handlerQ' = handlerQ]_vars

\* C2 (as stated): a notify() makes at most one timer handler ready to run,
\* whatever the state of the timer.
C2_NotifyAtMostOneHandler ==
  [][lastOp'.op = "notify" => Len(handlerQ') <= Len(handlerQ) + 1]_vars

\* C2 (amended): a notify() cancels its own wait and the wait an earlier
\* suspend_until left pending: it makes one handler ready plus one per wait
\* that was pending, at most two, all with operation_aborted, and leaves the
\* timer expired at now() with no wait pending.
C2_NotifyHandlers ==
  [][lastOp'.op = "notify" =>
       /\ Len(handlerQ') = Len(handlerQ) + timerPending + 1
       /\ Len(handlerQ') <= Len(handlerQ) + 2
       /\ \A i \in (Len(handlerQ) + 1)..Len(handlerQ') :
             handlerQ'[i] = TimerHandler("operation_aborted")
       /\ timerPending' = 0
       /\ timerExpiry' = now]_vars

\* a notify() that found a wait of suspend_until pending
C2_Witness ==
  /\ lastOp.op = "notify"
  /\ lastOp.pend = 1
  /\ Len(handlerQ) >= 2
  /\ timerPending = 0

NonDispatcherReady == Cardinality({i \in DOMAIN rqueue : rqueue[i] # DISP})

\* C3: counter_ is the number of non-dispatcher fibers linked in the ready
\* queue, so has_ready_fibers() holds exactly when one is linked; a queued
\* dispatcher does not count.
C3_CounterMatchesQueue ==
  /\ counter_ = NonDispatcherReady
  /\ has_ready_fibers <=> (\E i \in DOMAIN rqueue : rqueue[i] # DISP)

\* the dispatcher was just linked again, alone, after fibers were picked
C3_Witness ==
  /\ lastOp.op = "awakened"
  /\ lastOp.ctx = DISP
  /\ rqueue = <<DISP>>
  /\ ~has_ready_fibers
  /\ Len(pickLog) >= 2

\* C4: pick_next() hands out the fibers in the order awakened() linked them
\* (dispatcher included) and unlinks what it returns; on an empty queue it
\* returns none and changes neither the queue nor the counter.
C4_PickNextFifo ==
  /\ [](pickLog \o rqueue = enqLog)
  /\ [][lastOp'.op = "pick_next" =>
          IF rqueue = <<>>
            THEN lastOp'.ctx = NULL /\ rqueue' = rqueue /\ counter_' = counter_
            ELSE lastOp'.ctx = Head(rqueue) /\ rqueue' = Tail(rqueue)]_vars

\* a pick on the empty queue, after picks that included the dispatcher
C4_Witness ==
  /\ lastOp.op = "pick_next"
  /\ lastOp.ctx = NULL
  /\ Len(pickLog) >= 3
  /\ \E i \in DOMAIN pickLog : pickLog[i] = DISP
  /\ \E i \in DOMAIN pickLog : pickLog[i] # DISP

----------------------------------------------------------------------------
(* Claims about the drive loop (LoopSpec, LoopLiveSpec)                    *)

C6_ExitOnlyWhenIdle ==
  mainpc = "exited" => (~workGuard /\ counter_ = 0 /\ NonDispatcherReady = 0)

\* C6 (amended): the loop has exited only if the io_context is stopped, and
\* the work-guard is held for as long as the loop runs.
C6_ExitOnlyWhenStopped ==
  /\ mainpc = "exited" => stopped
  /\ mainpc # "exited" => workGuard

\* the loop has exited with the work-guard held and a worker still linked
C6_Witness ==
  /\ mainpc = "exited"
  /\ stopped
  /\ workGuard
  /\ \E w \in Workers : InQueue(w)

----------------------------------------------------------------------------
(* Claims about the echo server (ServerSpec, ServerLiveSpec)               *)

Occurrences(c) == Cardinality({i \in DOMAIN clist : clist[i] = c})

\* the session of c has not yet run conn->hook_.unlink()
BeforeUnlink(c) == Established(c) \/ cstate[c] \in {"x_close", "x_unlink"}

\* C7: a Connection is linked in clist, once, from its accept until its
\* session unlinks it, whatever ended the session; it is unlinked when it is
\* destroyed, it is destroyed once, and a Connection whose accept failed was
\* never linked.
C7_LinkedWhileHandled ==
  \A c \in Conns :
    /\ BeforeUnlink(c) => Occurrences(c) = 1
    /\ ~BeforeUnlink(c) => Occurrences(c) = 0
    /\ destroyed[c] <= 1
    /\ destroyed[c] = 1 <=> cstate[c] \in {"gone", "failed"}
    /\ cstate[c] = "failed" => ~everLinked[c]
    /\ cstate[c] = "gone" => everLinked[c]

\* a session ended on a failed write and destroyed its Connection, and the
\* Connection allocated after it failed to be accepted
C7_Witness ==
  /\ \E c \in Conns :
        /\ cstate[c] = "gone"
        /\ cres[c].ec = "error"
        /\ wrem[c] # <<>>
        /\ ~InList(c)
  /\ \E c \in Conns : cstate[c] = "failed" /\ destroyed[c] = 1

\* C8: once the accept loop has ended and the sockets were closed, every
\* Connection still linked has a closed socket; Done is notified only when
\* clist is empty and every session has ended, each after an operation of
\* its own that returned eof or an error.
C8_DoneOnlyWhenDrained ==
  /\ srvpc \in {"waitcheck", "wait", "done"} =>
        \A c \in Conns : InList(c) => ~sockOpen[c]
  /\ doneNotified =>
        /\ srvpc = "done"
        /\ clist = <<>>
        /\ \A c \in Conns : cstate[c] \in {"free", "failed", "gone"}
        /\ \A c \in Conns : cstate[c] = "gone" => cres[c].ec \in {"eof", "error"}

\* Done was notified after the listener was closed and a session that had
\* echoed data ended on an error
C8_Witness ==
  /\ doneNotified
  /\ \E c \in Conns : cstate[c] = "gone" /\ cres[c].ec = "error" /\ echoed[c] # <<>>
  /\ ~listenerOpen

AllSessionsOver == \A c \in Conns : cstate[c] \in {"free", "failed", "gone"}

IsPrefix(a, b) == Len(a) <= Len(b) /\ SubSeq(b, 1, Len(a)) = a

\* the bytes the session has read so far
Consumed(c) == SubSeq(sentLog[c], 1, Len(sentLog[c]) - Len(inbuf[c]))

\* C10: the peer gets back the bytes it sent, in order: what was echoed is
\* a prefix of what was sent, and whenever the session issues a read it has
\* written back every byte of the reads before.
C10_EchoRoundTrip ==
  \A c \in Conns :
    /\ IsPrefix(echoed[c], sentLog[c])
    /\ cstate[c] = "read" => echoed[c] = Consumed(c)
    /\ cstate[c] = "write" => echoed[c] \o wrem[c] = Consumed(c)
    /\ (cstate[c] = "writeDone" /\ cres[c].ec = "ok") => echoed[c] = Consumed(c)

\* a payload read in one piece was written back in two, and the next read
\* is issued
C10_Witness ==
  \E c \in Conns :
    /\ cstate[c] = "read"
    /\ Len(data[c]) >= 2
    /\ echoed[c] = sentLog[c]
    /\ Len(echoed[c]) >= 2

----------------------------------------------------------------------------
(* The io_uring manager: URingManager and URingEvent.                       *)
(* A handler works on a record r holding the members it may change and the *)
(* SQEs it has asked for (adds); the caller then takes them from the ring.  *)

UringAlive == ucrash = "none" /\ upc # "exited"

Cur ==
  [crash |-> "none", adds |-> <<>>, state_ |-> state_, sockOps |-> sockOps,
   cb_ |-> cb_, udec |-> udec, usends |-> usends, ushort |-> ushort,
   conn |-> conn]

\* io_uring_get_sqe on a ring holding q: TRUE when it returns an SQE
GetSubmit(q) == Len(q) < RingEntries

\* the GetSubmit calls of one handler, in order; ok is FALSE when CHECK(sqe)
\* failed
RECURSIVE Prepare(_, _)
Prepare(q, adds) ==
  IF adds = <<>> THEN [sq |-> q, ok |-> TRUE]
  ELSE IF GetSubmit(q) THEN Prepare(Append(q, Head(adds)), Tail(adds))
  ELSE [sq |-> q, ok |-> FALSE]

AddPollIn(r, fd) ==
  [r EXCEPT !.adds = Append(@, SQE("poll", fd, Ev(fd), FALSE))]

AssignCb(r, fd) == [r EXCEPT !.cb_[Ev(fd)] = TRUE]

\* io_uring_submit: the kernel takes the ring, an SQE with IOSQE_IO_LINK
\* heading a chain with the SQE after it
RECURSIVE ChainLen(_)
ChainLen(q) ==
  IF Len(q) <= 1 \/ ~q[1].link THEN Min(1, Len(q)) ELSE 1 + ChainLen(Tail(q))

RECURSIVE SeqToBag(_)
SeqToBag(q) ==
  IF q = <<>> THEN EmptyBag ELSE SetToBag({Head(q)}) (+) SeqToBag(Tail(q))

RECURSIVE Chains(_)
Chains(q) ==
  IF q = <<>> THEN <<>>
  ELSE <<SubSeq(q, 1, ChainLen(q))>> \o Chains(SubSeq(q, ChainLen(q) + 1, Len(q)))

----------------------------------------------------------------------------
(* RedisConnection *)

InitiateRead(r, fd) ==
  [r EXCEPT !.adds = Append(@, SQE("recv", fd, Ev(fd), FALSE)),
            !.state_[fd] = "READ"]

InitiateWrite_always_write(r, fd) ==
  IF linked_ske
  THEN [AddPollIn([r EXCEPT !.adds = Append(@, SQE("send", fd, NullData, TRUE)),
                            !.usends[fd] = @ + 1], fd)
          EXCEPT !.state_[fd] = "WRITE"]
  ELSE [r EXCEPT !.adds = Append(@, SQE("send", fd, Ev(fd), FALSE)),
                 !.usends[fd] = @ + 1,
                 !.state_[fd] = "WRITE"]

InitiateWrite_tagged_link(r, fd) ==
  IF linked_ske
  THEN [AddPollIn([r EXCEPT !.adds = Append(@, SQE("send", fd, Ev(fd), TRUE)),
                            !.usends[fd] = @ + 1], fd)
          EXCEPT !.state_[fd] = "WAIT_READ"]
  ELSE [r EXCEPT !.adds = Append(@, SQE("send", fd, Ev(fd), FALSE)),
                 !.usends[fd] = @ + 1,
                 !.state_[fd] = "WRITE"]

InitiateWrite(r, fd) ==
  IF linked_ske
  THEN [AddPollIn([r EXCEPT !.adds = Append(@, SQE("send", fd, NullData, TRUE)),
                            !.usends[fd] = @ + 1], fd)
          EXCEPT !.state_[fd] = "WAIT_READ"]
  ELSE [r EXCEPT !.adds = Append(@, SQE("send", fd, Ev(fd), FALSE)),
                 !.usends[fd] = @ + 1,
                 !.state_[fd] = "WRITE"]

StartPolling(r, fd) ==
  IF linked_ske
  THEN InitiateRead([AssignCb(r, fd) EXCEPT
                       !.adds = Append(@, SQE("poll", fd, NullData, TRUE))], fd)
  ELSE [AssignCb(r, fd) EXCEPT
          !.adds = Append(@, SQE("poll", fd, Ev(fd), FALSE)),
          !.state_[fd] = "WAIT_READ"]

\* PingCommand::Decode(res): res more bytes are in the parser; done when they
\* complete a request, which the parser then drops from what it holds
Decode(held, res) ==
  [done |-> held + res >= ReqLen,
   held |-> IF held + res >= ReqLen THEN held + res - ReqLen ELSE held + res]

\* the res <= 0 branch of Handle in state READ
CloseSocket_no_shutdown(r, fd) ==
  [r EXCEPT !.sockOps[fd] = @ \o <<"close">>,
            !.cb_[Ev(fd)] = FALSE]

CloseSocket(r, fd) ==
  [r EXCEPT !.sockOps[fd] = @ \o <<"shutdown", "close">>,
            !.cb_[Ev(fd)] = FALSE]

\* the WRITE branch of Handle
HandleWrite_rearm_twice(r, fd, res) ==
  IF res > 0
  THEN AddPollIn(AddPollIn([r EXCEPT !.state_[fd] = "WAIT_READ"], fd), fd)
  ELSE [r EXCEPT !.crash = "CHECK_GT(res, 0) in WRITE"]

HandleWrite(r, fd, res) ==
  IF res > 0
  THEN AddPollIn([r EXCEPT !.state_[fd] = "WAIT_READ"], fd)
  ELSE [r EXCEPT !.crash = "CHECK_GT(res, 0) in WRITE"]

Handle(r, fd, res) ==
  CASE r.state_[fd] = "WAIT_READ" ->
         IF res > 0 THEN InitiateRead(r, fd)
         ELSE [r EXCEPT !.crash = "CHECK_GT(res, 0) in WAIT_READ"]
    [] r.state_[fd] = "READ" ->
         IF res > 0
         THEN LET d == Decode(r.udec[fd], res) IN
              IF d.done
              THEN InitiateWrite([r EXCEPT !.udec[fd] = d.held], fd)
              ELSE InitiateRead([r EXCEPT !.udec[fd] = d.held,
                                          !.ushort[fd] = TRUE], fd)
         ELSE CloseSocket(r, fd)
    [] r.state_[fd] = "WRITE" -> HandleWrite(r, fd, res)
    [] OTHER -> r

\* the accept4 loop of HandleAccept: every connection waiting in the backlog
RECURSIVE AcceptAll(_, _)
AcceptAll(r, fd) ==
  IF fd > MaxFd THEN r
  ELSE IF r.conn[fd] = "backlog"
  THEN AcceptAll(StartPolling([r EXCEPT !.conn[fd] = "accepted"], fd), fd + 1)
  ELSE AcceptAll(r, fd + 1)

HandleAccept(r, res) ==
  IF res > 0 THEN AddPollIn(AcceptAll(r, 1), LFD)
  ELSE [r EXCEPT !.crash = "CHECK_GT(res, 0) in HandleAccept"]

\* URingEvent::Run: calling an empty std::function throws, nothing catches it
EventRun(ev, res) ==
  IF ~cb_[ev] THEN [Cur EXCEPT !.crash = "bad_function_call"]
  ELSE IF ev = Ev(LFD) THEN HandleAccept(Cur, res)
  ELSE Handle(Cur, FdOf(ev), res)

----------------------------------------------------------------------------
(* URingManager::Run *)

\* io_uring_submit at the top of the loop
run_submit ==
  /\ UringAlive
  /\ upc = "submit"
  /\ kern' = kern (+) SeqToBag(Chains(sq))
  /\ sq' = <<>>
  /\ upc' = "wait"
  /\ UNCHANGED <<linked_ske, cq, batch, ucrash, cb_, redisVars, uringObs>>
  /\ UNCHANGED outsideUring

\* io_uring_wait_cqe returned 0, io_uring_peek_batch_cqe fills cqes[]
run_peek ==
  /\ UringAlive
  /\ upc = "wait"
  /\ cq # <<>>
  /\ batch' = [n |-> Min(Len(cq), BatchSize), i |-> 0, adv |-> 0]
  /\ upc' = "batch"
  /\ UNCHANGED <<linked_ske, sq, kern, cq, ucrash, cb_, redisVars, uringObs>>
  /\ UNCHANGED outsideUring

\* io_uring_wait_cqe was interrupted by a signal
run_eintr ==
  /\ UringAlive
  /\ upc = "wait"
  /\ cq = <<>>
  /\ upc' = "exited"
  /\ UNCHANGED <<linked_ske, sq, kern, cq, batch, ucrash, cb_, redisVars, uringObs>>
  /\ UNCHANGED outsideUring

\* io_uring_cq_advance(&ring_, 1)
cq_advance_none(q) == q

cq_advance(q) == Tail(q)

\* one turn of the for loop over cqes[]: cqes[i] is read, the head advances,
\* the callback of a tagged completion runs; after the last turn the while
\* loop goes round and io_uring_submit hands the ring to the kernel
run_handle ==
  /\ UringAlive
  /\ upc = "batch"
  /\ batch.i < batch.n
  /\ LET cqe == cq[batch.i - batch.adv + 1]
         q == cq_advance(cq)
         r == IF cqe.data # NullData THEN EventRun(cqe.data, cqe.res) ELSE Cur
         p == Prepare(sq, r.adds)
     IN /\ cq' = q
        /\ batch' = [batch EXCEPT !.i = @ + 1, !.adv = @ + (Len(cq) - Len(q))]
        /\ upc' = IF batch.i + 1 = batch.n THEN "wait" ELSE "batch"
        /\ ulast' = IF cqe.data # NullData
                    THEN [ev |-> cqe.data, res |-> cqe.res] ELSE ulast
        /\ ucalls' = IF cqe.data # NullData THEN (ucalls + 1) % 2 ELSE ucalls
        /\ IF batch.i + 1 = batch.n /\ r.crash = "none" /\ p.ok
           THEN sq' = <<>> /\ kern' = kern (+) SeqToBag(Chains(p.sq))
           ELSE sq' = p.sq /\ kern' = kern
        /\ ucrash' = IF r.crash # "none" THEN r.crash
                     ELSE IF ~p.ok THEN "CHECK(sqe) in GetSubmit" ELSE "none"
        /\ cb_' = r.cb_
        /\ state_' = r.state_
        /\ sockOps' = r.sockOps
        /\ udec' = r.udec
        /\ usends' = r.usends
        /\ ushort' = r.ushort
        /\ conn' = r.conn
  /\ UNCHANGED <<linked_ske, rcvbuf, upeerClosed, usockErr, ucqes, ubytesSent>>
  /\ UNCHANGED outsideUring

----------------------------------------------------------------------------
(* The kernel and the peers *)

SockClosed(fd) == fd # LFD /\ sockOps[fd] # <<>>

\* the results the operation at the head of a chain can complete with now
Results(h) ==
  CASE h.op = "poll" /\ h.fd = LFD ->
         IF \E fd \in Fds : conn[fd] = "backlog" THEN {1} ELSE {}
    [] h.op = "poll" /\ h.fd # LFD ->
         IF rcvbuf[h.fd] > 0 \/ upeerClosed[h.fd] \/ usockErr[h.fd]
         THEN {1} ELSE {}
    [] h.op = "recv" ->
         IF usockErr[h.fd] \/ SockClosed(h.fd) THEN {-1}
         ELSE IF rcvbuf[h.fd] > 0 THEN 1..rcvbuf[h.fd]
         ELSE IF upeerClosed[h.fd] THEN {0}
         ELSE {-1}   \* EAGAIN on the non-blocking socket, or the wait goes on
    [] h.op = "send" ->
         IF usockErr[h.fd] \/ SockClosed(h.fd) THEN {-1} ELSE {1}
    [] OTHER -> {}

CQE(sqe, res) == [data |-> sqe.data, res |-> res]

\* the SQEs linked behind a failed one complete with -ECANCELED
Cancelled(rest) == [k \in 1..Len(rest) |-> CQE(rest[k], -1)]

K_complete(chain, res) ==
  /\ UringAlive
  /\ BagIn(chain, kern)
  /\ res \in Results(chain[1])
  /\ LET h == chain[1]
         rest == Tail(chain)
         one == SetToBag({chain})
         failed == res < 0
         posted == <<CQE(h, res)>> \o (IF failed THEN Cancelled(rest) ELSE <<>>)
     IN /\ cq' = cq \o posted
        /\ kern' = IF failed \/ rest = <<>> THEN kern (-) one
                   ELSE (kern (-) one) (+) SetToBag({rest})
        /\ rcvbuf' = IF h.op = "recv" /\ res > 0
                     THEN [rcvbuf EXCEPT ![h.fd] = @ - res] ELSE rcvbuf
        /\ ucqes' = IF h.fd # LFD
                    THEN [ucqes EXCEPT ![h.fd] = @ + Len(posted)] ELSE ucqes
  /\ UNCHANGED <<linked_ske, sq, batch, upc, ucrash, cb_>>
  /\ UNCHANGED <<state_, sockOps, udec, conn, upeerClosed, usockErr>>
  /\ UNCHANGED <<ulast, ucalls, usends, ubytesSent, ushort>>
  /\ UNCHANGED outsideUring

peer_connect ==
  /\ UringAlive
  /\ \E fd \in Fds :
       /\ conn[fd] = "none"
       /\ \A g \in Fds : g < fd => conn[g] # "none"
       /\ conn' = [conn EXCEPT ![fd] = "backlog"]
  /\ UNCHANGED <<ringVars, state_, sockOps, udec, rcvbuf, upeerClosed, usockErr, uringObs>>
  /\ UNCHANGED outsideUring

RECURSIVE SumOver(_, _)
SumOver(f, S) ==
  IF S = {} THEN 0
  ELSE LET x == CHOOSE y \in S : TRUE IN f[x] + SumOver(f, S \ {x})

peer_send(fd, k) ==
  /\ UringAlive
  /\ conn[fd] # "none"
  /\ ~upeerClosed[fd] /\ ~usockErr[fd] /\ ~SockClosed(fd)
  /\ SumOver(ubytesSent, Fds) + k <= MaxBytes
  /\ rcvbuf' = [rcvbuf EXCEPT ![fd] = @ + k]
  /\ ubytesSent' = [ubytesSent EXCEPT ![fd] = @ + k]
  /\ UNCHANGED <<ringVars, state_, sockOps, udec, conn, upeerClosed, usockErr>>
  /\ UNCHANGED <<ulast, ucalls, ucqes, usends, ushort>>
  /\ UNCHANGED outsideUring

peer_close(fd) ==
  /\ UringAlive
  /\ conn[fd] # "none"
  /\ ~upeerClosed[fd] /\ ~usockErr[fd] /\ ~SockClosed(fd)
  /\ upeerClosed' = [upeerClosed EXCEPT ![fd] = TRUE]
  /\ UNCHANGED <<ringVars, state_, sockOps, udec, conn, rcvbuf, usockErr, uringObs>>
  /\ UNCHANGED outsideUring

sock_error(fd) ==
  /\ UringAlive
  /\ conn[fd] # "none"
  /\ ~upeerClosed[fd] /\ ~usockErr[fd] /\ ~SockClosed(fd)
  /\ usockErr' = [usockErr EXCEPT ![fd] = TRUE]
  /\ UNCHANGED <<ringVars, state_, sockOps, udec, conn, rcvbuf, upeerClosed, uringObs>>
  /\ UNCHANGED outsideUring

UringNext ==
  \/ run_submit
  \/ run_peek
  \/ run_eintr
  \/ run_handle
  \/ \E chain \in BagToSet(kern), res \in -1..MaxBytes : K_complete(chain, res)
  \/ peer_connect
  \/ \E fd \in Fds, k \in 1..MaxBytes : peer_send(fd, k)
  \/ \E fd \in Fds : peer_close(fd)
  \/ \E fd \in Fds : sock_error(fd)

\* main() with either setting of --linked_ske
UringStart == \E flag \in BOOLEAN : CoreInit /\ UringInit(flag) /\ PipeInit(0, NoFaults)

UringSpec == UringStart /\ [][UringNext]_vars

\* the model's own sanity: what the handlers rely on
UringSane ==
  /\ Len(sq) <= RingEntries
  /\ batch.i <= batch.n
  /\ \A fd \in Fds : rcvbuf[fd] >= 0 /\ udec[fd] < ReqLen + MaxBytes

----------------------------------------------------------------------------
(* The manager's interface on its own: callers take SQEs with GetSubmit and *)
(* AddPollIn while a handler (or main) runs, until Run submits the ring.    *)

SQEs ==
  { SQE(op, fd, ud, FALSE) :
      op \in {"poll", "recv", "send"}, fd \in {LFD} \cup Fds,
      ud \in {NullData} \cup Events }

TakeSQEs(adds) ==
  /\ UringAlive
  /\ upc = "submit"
  /\ LET p == Prepare(sq, adds)
     IN /\ sq' = p.sq
        /\ ucrash' = IF p.ok THEN "none" ELSE "CHECK(sqe) in GetSubmit"
  /\ UNCHANGED <<linked_ske, kern, cq, batch, upc, cb_, redisVars, uringObs>>
  /\ UNCHANGED outsideUring

A_GetSubmit(sqe) == sqe.data \in {NullData, Ev(sqe.fd)} /\ TakeSQEs(<<sqe>>)

A_AddPollIn(fd) == TakeSQEs(AddPollIn(Cur, fd).adds)

RingNext ==
  \/ \E sqe \in SQEs : A_GetSubmit(sqe)
  \/ \E fd \in {LFD} \cup Fds : A_AddPollIn(fd)
  \/ run_submit

RingSpec == AlgoInit /\ [][RingNext]_vars

----------------------------------------------------------------------------
(* Claims about the io_uring manager and RedisConnection *)

\* C11: a GetSubmit call that finds no free SQE waits for capacity; it never
\* aborts the process.
C11_FullRingWaits == ucrash # "CHECK(sqe) in GetSubmit"

\* C12: each turn of Run's loop consumes exactly the oldest completion of
\* the queue: the head moves by one, a completion with user data runs that
\* event's callback once with that completion's result, one without runs no
\* callback; callbacks run at no other time, and completions leave the
\* queue at no other time, so none is skipped or handled twice.
C12_CompletionsInOrder ==
  [][ /\ batch'.i = batch.i + 1 =>
           /\ batch.i < batch.n
           /\ cq # <<>>
           /\ cq' = Tail(cq)
           /\ IF cq[1].data # NullData
              THEN /\ ucalls' # ucalls
                   /\ ulast' = [ev |-> cq[1].data, res |-> cq[1].res]
              ELSE /\ ucalls' = ucalls
                   /\ ulast' = ulast
      /\ batch'.i # batch.i + 1 =>
           /\ ucalls' = ucalls
           /\ ulast' = ulast
           /\ IsPrefix(cq, cq')
    ]_vars

\* with linked submissions, a batch of two completions was handled up to its
\* second entry and a callback ran
C12_Witness ==
  /\ batch.n >= 2
  /\ batch.i = 2
  /\ ulast.ev # NullData
  /\ linked_ske
  /\ ucrash = "none"

ConnStates == {"WAIT_READ", "READ", "WRITE"}

\* C13 (as stated): state_ changes only along WAIT_READ -> READ,
\* READ -> WRITE and WRITE -> WAIT_READ, with and without linked submissions.
C13_OnlyFourTransitions ==
  [][\A fd \in Fds :
       (state_[fd] \in ConnStates /\ state_'[fd] # state_[fd]) =>
         <<state_[fd], state_'[fd]>> \in
           { <<"WAIT_READ", "READ">>, <<"READ", "WRITE">>, <<"WRITE", "WAIT_READ">> }
    ]_vars

\* C13 (amended): without linked submissions state_ changes only along
\* WAIT_READ -> READ, READ -> WRITE and WRITE -> WAIT_READ; with them, only
\* along WAIT_READ -> READ and READ -> WAIT_READ, and WRITE is never entered.
C13_TransitionsByMode ==
  [][\A fd \in Fds :
       /\ (state_[fd] \in ConnStates /\ state_'[fd] # state_[fd]) =>
            <<state_[fd], state_'[fd]>> \in
              IF linked_ske
              THEN { <<"WAIT_READ", "READ">>, <<"READ", "WAIT_READ">> }
              ELSE { <<"WAIT_READ", "READ">>, <<"READ", "WRITE">>,
                     <<"WRITE", "WAIT_READ">> }
       /\ linked_ske => state_'[fd] # "WRITE"
    ]_vars

\* with linked submissions a connection is back in WAIT_READ after its
\* second response was submitted
C13_Witness ==
  \E fd \in Fds :
    /\ linked_ske
    /\ state_[fd] = "WAIT_READ"
    /\ usends[fd] >= 2
    /\ ucrash = "none"

\* SQEs and CQEs that carry the event ev
TaggedIn(q, ev) == Cardinality({k \in DOMAIN q : q[k].data = ev})

RECURSIVE TaggedInChains(_, _)
TaggedInChains(S, ev) ==
  IF S = {} THEN 0
  ELSE LET ch == CHOOSE x \in S : TRUE
       IN CopiesIn(ch, kern) * TaggedIn(ch, ev) + TaggedInChains(S \ {ch}, ev)

\* on the ring, with the kernel, or completed and not yet consumed
InFlight(ev) == TaggedIn(sq, ev) + TaggedInChains(BagToSet(kern), ev) + TaggedIn(cq, ev)

\* C14: at most one SQE tagged with a connection's event is in flight, the
\* callback is cleared only by the handler of a completion tagged with that
\* event, nothing tagged with it is in flight afterwards, and Run never
\* calls a cleared callback.
C14_ReleasedAtTerminalCompletion ==
  /\ [](\A fd \in Fds :
          /\ InFlight(Ev(fd)) <= 1
          /\ (conn[fd] = "accepted" /\ ~cb_[Ev(fd)]) => InFlight(Ev(fd)) = 0
          /\ ucrash # "bad_function_call")
  /\ [][\A fd \in Fds :
          (cb_[Ev(fd)] /\ ~cb_'[Ev(fd)]) =>
             /\ ucalls' # ucalls
             /\ ulast'.ev = Ev(fd)
             /\ cq # <<>> /\ cq[1].data = Ev(fd)
       ]_vars

\* a connection that answered a request was closed, its callback cleared
C14_Witness ==
  \E fd \in Fds :
    /\ conn[fd] = "accepted"
    /\ ~cb_[Ev(fd)]
    /\ usends[fd] >= 1
    /\ ~linked_ske
    /\ ucrash = "none"

\* no SQE of the socket is on the ring or with the kernel
NoSqeFor(fd) ==
  /\ \A k \in DOMAIN sq : sq[k].fd # fd
  /\ \A ch \in BagToSet(kern) : \A k \in DOMAIN ch : ch[k].fd # fd

\* C15: a completion with res <= 0 handled in state READ makes the handler
\* call shutdown, then close, clear the callback and submit nothing more for
\* the connection; from then on nothing of the connection changes.
C15_CloseOnReadError ==
  [][\A fd \in Fds :
       /\ ( /\ ucalls' # ucalls
            /\ ulast'.ev = Ev(fd)
            /\ ulast'.res <= 0
            /\ state_[fd] = "READ"
            /\ cb_[Ev(fd)] ) =>
              /\ sockOps'[fd] = <<"shutdown", "close">>
              /\ ~cb_'[Ev(fd)]
              /\ NoSqeFor(fd)'
              /\ ucrash' = "none"
       /\ sockOps[fd] # <<>> =>
              /\ sockOps'[fd] = sockOps[fd]
              /\ ~cb_'[Ev(fd)]
              /\ state_'[fd] = state_[fd]
              /\ NoSqeFor(fd)'
    ]_vars

\* a connection was closed on end of file after it had answered a request
C15_Witness ==
  \E fd \in Fds :
    /\ sockOps[fd] = <<"shutdown", "close">>
    /\ ulast = [ev |-> Ev(fd), res |-> 0]
    /\ usends[fd] >= 1
    /\ state_[fd] = "READ"

\* the exchanges a peer has begun: requests it has sent, whole or in part
ReqsBegun(fd) == (ubytesSent[fd] + ReqLen - 1) \div ReqLen

\* every request was read by one recvmsg, the peer is still connected
CleanBurst(fd) == ~ushort[fd] /\ ~upeerClosed[fd] /\ ~usockErr[fd]

\* C16 (as stated): with linked_ske, N exchanges on a connection produce at
\* most 2*N completion queue entries.
C16_TwoCqesPerExchange ==
  \A fd \in Fds :
    (linked_ske /\ CleanBurst(fd)) => ucqes[fd] <= 2 * ReqsBegun(fd)

\* C16 (amended): with linked_ske, N exchanges on a connection, each request
\* read by one recvmsg, produce at most 3*N completion queue entries.
C16_ThreeCqesPerExchange ==
  \A fd \in Fds :
    (linked_ske /\ CleanBurst(fd)) => ucqes[fd] <= 3 * ReqsBegun(fd)

\* two exchanges on a linked connection have produced six completions
C16_Witness ==
  \E fd \in Fds :
    /\ linked_ske /\ CleanBurst(fd)
    /\ ubytesSent[fd] = 2 * ReqLen
    /\ usends[fd] = 2
    /\ ucqes[fd] = 6

\* the connection waits for its peer: nothing of it is left to handle
Quiescent(fd) ==
  /\ conn[fd] = "accepted" /\ cb_[Ev(fd)]
  /\ CleanBurst(fd) \/ ushort[fd]
  /\ ~upeerClosed[fd] /\ ~usockErr[fd]
  /\ rcvbuf[fd] = 0
  /\ upc = "wait" /\ sq = <<>> /\ cq = <<>> /\ ucrash = "none"
  /\ \A ch \in BagToSet(kern) : ch[1].fd = fd => ch[1].op = "poll"

\* C17: the handler sends one response per request: when a connection waits
\* for its peer, it has submitted as many sendmsg as the peer has sent
\* complete requests.
C17_OneResponsePerRequest ==
  \A fd \in Fds : Quiescent(fd) => usends[fd] = ubytesSent[fd] \div ReqLen

----------------------------------------------------------------------------
(* The pipeline executor: Pipeline::Executor.                               *)
(* The fibers of a reactor are taken one record or one file at a time; the  *)
(* callbacks of AwaitOnAll run one reactor at a time.                       *)

PipeAlive == ~pcrash /\ ~terminated

\* file_name_q_.reset(new FileNameQueue{16}); runner_->OperatorStart()
Run_start ==
  /\ PipeAlive
  /\ prun = "start"
  /\ fqState' = "open"
  /\ file_name_q_' = <<>>
  /\ prun' = "setup"
  /\ UNCHANGED <<map_limit, pvisited, nextFile, ioVars, stopVars>>
  /\ UNCHANGED auxVars
  /\ UNCHANGED outsidePipe

\* the first AwaitOnAll callback on reactor r: per_io_, the worker fiber,
\* the context and the mapper fiber are created
Run_setup(r) ==
  /\ PipeAlive
  /\ prun = "setup"
  /\ r \notin pvisited
  /\ per_io_' = [per_io_ EXCEPT ![r] = "live"]
  /\ stop_early' = [stop_early EXCEPT ![r] = FALSE]
  /\ wpc' = [wpc EXCEPT ![r] = "pop"]
  /\ mpc' = [mpc EXCEPT ![r] = "pop"]
  /\ IF pvisited \cup {r} = Reactors
     THEN prun' = "push" /\ pvisited' = {}
     ELSE prun' = prun /\ pvisited' = pvisited \cup {r}
  /\ UNCHANGED <<map_limit, nextFile, file_name_q_, fqState>>
  /\ UNCHANGED <<wleft, rqlen, closing, record_num, mapped, skipped, pushed, spc, flushed>>
  /\ UNCHANGED stopVars
  /\ UNCHANGED auxVars
  /\ UNCHANGED outsidePipe

\* file_name_q_->push of the next input's file, then the is_closed() test
Run_push ==
  /\ PipeAlive
  /\ prun = "push"
  /\ IF fqState = "closed"
     THEN /\ prun' = "errs"
          /\ UNCHANGED <<nextFile, file_name_q_>>
     ELSE /\ Len(file_name_q_) < FileQueueCap
          /\ file_name_q_' = Append(file_name_q_, nextFile)
          /\ nextFile' = nextFile + 1
          /\ prun' = IF nextFile + 1 > MaxFiles THEN "errs" ELSE "push"
  /\ UNCHANGED <<map_limit, pvisited, fqState, ioVars, stopVars>>
  /\ UNCHANGED auxVars
  /\ UNCHANGED outsidePipe

\* the AwaitOnAll that adds up do_context->parse_errors
Run_errs ==
  /\ PipeAlive
  /\ prun = "errs"
  /\ IF \E r \in Reactors : per_io_[r] = "null"
     THEN pcrash' = TRUE /\ prun' = prun /\ parse_errs' = parse_errs
     ELSE /\ pcrash' = pcrash
          /\ prun' = "close"
          /\ parse_errs' = SumOver(parse_errors, Reactors)
  /\ UNCHANGED <<map_limit, pvisited, nextFile, file_name_q_, fqState, ioVars,
                 stoppc, svisited>>
  /\ UNCHANGED <<closes, processed, parse_errors, yields, faults, thrown, terminated>>
  /\ UNCHANGED outsidePipe

Run_close_if_open ==
  /\ PipeAlive
  /\ prun = "close"
  /\ fqState' = "closed"
  /\ closes' = IF fqState = "closed" THEN closes ELSE closes + 1
  /\ prun' = "shutdown"
  /\ spc' = [r \in Reactors |-> "join_workers"]
  /\ UNCHANGED <<map_limit, pvisited, nextFile, file_name_q_>>
  /\ UNCHANGED <<per_io_, stop_early, wpc, wleft, rqlen, closing, mpc, record_num,
                 mapped, skipped, pushed, flushed>>
  /\ UNCHANGED stopVars
  /\ UNCHANGED <<processed, parse_errors, parse_errs, yields, faults, thrown,
                 terminated>>
  /\ UNCHANGED outsidePipe

\* file_name_q_->close(); AwaitFiberOnAll starts Shutdown on every reactor
Run_close ==
  /\ PipeAlive
  /\ prun = "close"
  /\ fqState' = "closed"
  /\ closes' = closes + 1
  /\ prun' = "shutdown"
  /\ spc' = [r \in Reactors |-> "join_workers"]
  /\ UNCHANGED <<map_limit, pvisited, nextFile, file_name_q_>>
  /\ UNCHANGED <<per_io_, stop_early, wpc, wleft, rqlen, closing, mpc, record_num,
                 mapped, skipped, pushed, flushed>>
  /\ UNCHANGED stopVars
  /\ UNCHANGED <<processed, parse_errors, parse_errs, yields, faults, thrown,
                 terminated>>
  /\ UNCHANGED outsidePipe

\* for (auto& f : process_fd) f.join() has returned
WorkersJoined_nowait(r) == TRUE

WorkersJoined(r) == wpc[r] = "done"

\* PerIoStruct::Shutdown up to map_fd.join(): the workers are joined, then
\* record_q.StartClosing()
Shutdown_close(r) ==
  /\ PipeAlive
  /\ spc[r] = "join_workers"
  /\ WorkersJoined(r)
  /\ closing' = [closing EXCEPT ![r] = TRUE]
  /\ spc' = [spc EXCEPT ![r] = "join_map"]
  /\ UNCHANGED <<runVars, stopVars>>
  /\ UNCHANGED <<per_io_, stop_early, wpc, wleft, rqlen, mpc, record_num,
                 mapped, skipped, pushed, flushed>>
  /\ UNCHANGED auxVars
  /\ UNCHANGED outsidePipe

\* map_fd.join() has returned: do_context->Flush(), then per_io_.reset()
Shutdown_flush(r) ==
  /\ PipeAlive
  /\ spc[r] = "join_map"
  /\ mpc[r] = "done"
  /\ flushed' = [flushed EXCEPT ![r] = TRUE]
  /\ per_io_' = [per_io_ EXCEPT ![r] = "null"]
  /\ spc' = [spc EXCEPT ![r] = "done"]
  /\ UNCHANGED <<runVars, stopVars>>
  /\ UNCHANGED <<stop_early, wpc, wleft, rqlen, closing, mpc, record_num,
                 mapped, skipped, pushed>>
  /\ UNCHANGED auxVars
  /\ UNCHANGED outsidePipe

\* AwaitFiberOnAll has returned: OperatorEnd(), file_name_q_.reset()
Run_end ==
  /\ PipeAlive
  /\ prun = "shutdown"
  /\ \A r \in Reactors : spc[r] = "done"
  /\ fqState' = "null"
  /\ file_name_q_' = <<>>
  /\ prun' = "done"
  /\ UNCHANGED <<map_limit, pvisited, nextFile, ioVars, stopVars>>
  /\ UNCHANGED auxVars
  /\ UNCHANGED outsidePipe

\* file_name_q_->pop on a queue that holds a name: the name popped and what
\* the queue holds afterwards
FilePop_peek(q) == [file |-> Head(q), rest |-> q]

FilePop(q) == [file |-> Head(q), rest |-> Tail(q)]

\* the loop test of ProcessFiles: while (!trd_local->stop_early)
StopEarlySeen_never(r) == FALSE

StopEarlySeen(r) == stop_early[r]

\* ProcessFiles: the loop test and the call of file_name_q_->pop, which run
\* without a fiber switch unless pop finds the queue open and empty: the
\* fiber then waits inside pop
ProcessFiles_pop(r) ==
  /\ PipeAlive
  /\ wpc[r] = "pop"
  /\ IF StopEarlySeen(r)
     THEN /\ wpc' = [wpc EXCEPT ![r] = "done"]
          /\ UNCHANGED <<file_name_q_, wleft, processed>>
     ELSE IF file_name_q_ # <<>>
     THEN /\ file_name_q_' = FilePop(file_name_q_).rest
          /\ processed' = [processed EXCEPT ![FilePop(file_name_q_).file] = @ + 1]
          /\ wleft' = [wleft EXCEPT ![r] = RecsPerFile]
          /\ wpc' = [wpc EXCEPT ![r] = "file"]
     ELSE /\ wpc' = [wpc EXCEPT ![r] = IF fqState = "closed" THEN "done" ELSE "wait"]
          /\ UNCHANGED <<file_name_q_, wleft, processed>>
  /\ UNCHANGED <<map_limit, prun, pvisited, nextFile, fqState>>
  /\ UNCHANGED <<per_io_, stop_early, rqlen, closing, mpc, record_num, mapped,
                 skipped, pushed, spc, flushed>>
  /\ UNCHANGED stopVars
  /\ UNCHANGED <<closes, parse_errors, parse_errs, yields, faults, thrown,
                 terminated>>
  /\ UNCHANGED outsidePipe

\* ProcessFiles: the fiber waiting inside pop is resumed; it takes a name if
\* the queue holds one and returns closed if the queue is closed and empty
ProcessFiles_wake(r) ==
  /\ PipeAlive
  /\ wpc[r] = "wait"
  /\ IF file_name_q_ # <<>>
     THEN /\ file_name_q_' = FilePop(file_name_q_).rest
          /\ processed' = [processed EXCEPT ![FilePop(file_name_q_).file] = @ + 1]
          /\ wleft' = [wleft EXCEPT ![r] = RecsPerFile]
          /\ wpc' = [wpc EXCEPT ![r] = "file"]
     ELSE /\ fqState = "closed"
          /\ wpc' = [wpc EXCEPT ![r] = "done"]
          /\ UNCHANGED <<file_name_q_, wleft, processed>>
  /\ UNCHANGED <<map_limit, prun, pvisited, nextFile, fqState>>
  /\ UNCHANGED <<per_io_, stop_early, rqlen, closing, mpc, record_num, mapped,
                 skipped, pushed, spc, flushed>>
  /\ UNCHANGED stopVars
  /\ UNCHANGED <<closes, parse_errors, parse_errs, yields, faults, thrown,
                 terminated>>
  /\ UNCHANGED outsidePipe

\* the record queue: a push waits for room and is refused once the queue is
\* closing; a pop waits for a record and reports the queue closed once it is
\* closing and drained
RecordPush(len, isClosing) ==
  IF isClosing THEN "closed" ELSE IF len < RecordQueueCap THEN "ok" ELSE "wait"

RecordPop(len, isClosing) ==
  IF len > 0 THEN "record" ELSE IF isClosing THEN "closed" ELSE "wait"

\* what a call that may fail does: "ok", "bad" (the record does not parse
\* and do_context->parse_errors is incremented) or "throw" (an exception
\* leaves the fiber function)
Outcomes(canBeBad) ==
  {"ok"} \cup (IF canBeBad /\ faults.parse > 0 THEN {"bad"} ELSE {})
         \cup (IF faults.throws > 0 THEN {"throw"} ELSE {})

\* an exception leaves the function of a fiber on reactor r: nothing in
\* ProcessFiles, MapFiber or Run catches it, and std::terminate ends the
\* process
Throw(r) ==
  /\ thrown' = thrown \cup {r}
  /\ terminated' = TRUE
  /\ faults' = [faults EXCEPT !.throws = @ - 1]

\* runner_->ProcessFile pushes one more record of the file into record_q,
\* or throws
ProcessFile_push(r) ==
  /\ PipeAlive
  /\ wpc[r] = "file"
  /\ RecordPush(rqlen[r], closing[r]) # "wait"
  /\ \E o \in Outcomes(FALSE) :
       IF o = "throw"
       THEN /\ Throw(r)
            /\ UNCHANGED <<rqlen, pushed, wleft, wpc>>
       ELSE /\ IF RecordPush(rqlen[r], closing[r]) = "closed"
               THEN UNCHANGED <<rqlen, pushed>>
               ELSE /\ rqlen' = [rqlen EXCEPT ![r] = @ + 1]
                    /\ pushed' = [pushed EXCEPT ![r] = @ + 1]
            /\ wleft' = [wleft EXCEPT ![r] = @ - 1]
            /\ wpc' = [wpc EXCEPT ![r] = IF wleft[r] = 1 THEN "pop" ELSE "file"]
            /\ UNCHANGED <<faults, thrown, terminated>>
  /\ UNCHANGED <<runVars, stopVars>>
  /\ UNCHANGED <<per_io_, stop_early, closing, mpc, record_num, mapped, skipped,
                 spc, flushed>>
  /\ UNCHANGED <<closes, processed, parse_errors, parse_errs, yields>>
  /\ UNCHANGED outsidePipe

\* the body of MapFiber's loop for one popped record: the new record_num,
\* whether the do-function is called, whether the loop is left
MapRecord_break(n) ==
  IF map_limit # 0 /\ n + 1 > map_limit
  THEN [record_num |-> n + 1, do |-> FALSE, yield |-> FALSE, stop |-> TRUE]
  ELSE [record_num |-> n + 2, do |-> TRUE, yield |-> (n + 2) % YieldEvery = 0,
        stop |-> TRUE]

MapRecord(n) ==
  IF map_limit # 0 /\ n + 1 > map_limit
  THEN [record_num |-> n + 1, do |-> FALSE, yield |-> FALSE, stop |-> FALSE]
  ELSE [record_num |-> n + 2, do |-> TRUE, yield |-> (n + 2) % YieldEvery = 0,
        stop |-> FALSE]

\* MapFiber: record_q.Pop and the loop body
MapFiber_pop(r) ==
  /\ PipeAlive
  /\ mpc[r] = "pop"
  /\ RecordPop(rqlen[r], closing[r]) # "wait"
  /\ IF RecordPop(rqlen[r], closing[r]) = "record"
     THEN LET m == MapRecord(record_num[r])
          IN \E o \in Outcomes(m.do) :
               IF o = "throw" /\ m.do
               THEN /\ Throw(r)
                    /\ rqlen' = [rqlen EXCEPT ![r] = @ - 1]
                    /\ UNCHANGED <<record_num, mapped, skipped, mpc, yields,
                                   parse_errors>>
               ELSE /\ rqlen' = [rqlen EXCEPT ![r] = @ - 1]
                    /\ record_num' = [record_num EXCEPT ![r] = m.record_num]
                    /\ mapped' = [mapped EXCEPT ![r] = IF m.do THEN @ + 1 ELSE @]
                    /\ skipped' = [skipped EXCEPT ![r] = IF m.do THEN @ ELSE @ + 1]
                    /\ yields' = [yields EXCEPT ![r] = IF m.yield THEN @ + 1 ELSE @]
                    /\ mpc' = [mpc EXCEPT ![r] = IF m.stop THEN "done" ELSE "pop"]
                    /\ parse_errors' =
                         [parse_errors EXCEPT ![r] = IF o = "bad" THEN @ + 1 ELSE @]
                    /\ faults' =
                         [faults EXCEPT !.parse = IF o = "bad" THEN @ - 1 ELSE @]
                    /\ UNCHANGED <<thrown, terminated>>
     ELSE /\ mpc' = [mpc EXCEPT ![r] = "done"]
          /\ UNCHANGED <<rqlen, record_num, mapped, skipped, yields, parse_errors,
                         faults, thrown, terminated>>
  /\ UNCHANGED <<runVars, stopVars>>
  /\ UNCHANGED <<per_io_, stop_early, wpc, wleft, closing, pushed, spc, flushed>>
  /\ UNCHANGED <<closes, processed, parse_errs>>
  /\ UNCHANGED outsidePipe

\* Executor::Stop: the test if (file_name_q_), made on the caller's thread
Stop_test ==
  /\ PipeAlive
  /\ stoppc = "idle"
  /\ stoppc' = IF fqState # "null" THEN "close" ELSE "done"
  /\ UNCHANGED <<runVars, ioVars, svisited, pcrash>>
  /\ UNCHANGED auxVars
  /\ UNCHANGED outsidePipe

\* Executor::Stop: file_name_q_->close(). Run may have reset the queue since
\* the test: the call then uses a destroyed object, and either faults or
\* returns with nothing closed
Stop_close ==
  /\ PipeAlive
  /\ stoppc = "close"
  /\ \E faultsOnReset \in BOOLEAN :
       IF fqState # "null"
       THEN /\ fqState' = "closed"
            /\ closes' = closes + 1
            /\ stoppc' = "visit"
            /\ pcrash' = pcrash
       ELSE IF faultsOnReset
       THEN /\ pcrash' = TRUE
            /\ UNCHANGED <<fqState, closes, stoppc>>
       ELSE /\ stoppc' = "visit"
            /\ closes' = closes + 1
            /\ UNCHANGED <<fqState, pcrash>>
  /\ UNCHANGED <<map_limit, prun, pvisited, nextFile, file_name_q_, ioVars,
                 svisited>>
  /\ UNCHANGED <<processed, parse_errors, parse_errs, yields, faults, thrown,
                 terminated>>
  /\ UNCHANGED outsidePipe

\* the AwaitOnAll callback of Stop on reactor r: per_io_->stop_early = true
Stop_visit(r) ==
  /\ PipeAlive
  /\ stoppc = "visit"
  /\ r \notin svisited
  /\ IF per_io_[r] = "null"
     THEN pcrash' = TRUE /\ stop_early' = stop_early
     ELSE pcrash' = pcrash /\ stop_early' = [stop_early EXCEPT ![r] = TRUE]
  /\ svisited' = svisited \cup {r}
  /\ stoppc' = IF svisited \cup {r} = Reactors THEN "done" ELSE "visit"
  /\ UNCHANGED runVars
  /\ UNCHANGED <<per_io_, wpc, wleft, rqlen, closing, mpc, record_num, mapped,
                 skipped, pushed, spc, flushed>>
  /\ UNCHANGED auxVars
  /\ UNCHANGED outsidePipe

PipeNext ==
  \/ Run_start
  \/ \E r \in Reactors : Run_setup(r)
  \/ Run_push
  \/ Run_errs
  \/ Run_close
  \/ \E r \in Reactors : Shutdown_close(r)
  \/ \E r \in Reactors : Shutdown_flush(r)
  \/ Run_end
  \/ \E r \in Reactors : ProcessFiles_pop(r)
  \/ \E r \in Reactors : ProcessFiles_wake(r)
  \/ \E r \in Reactors : ProcessFile_push(r)
  \/ \E r \in Reactors : MapFiber_pop(r)
  \/ Stop_test
  \/ Stop_close
  \/ \E r \in Reactors : Stop_visit(r)

\* an Executor with --map_limit left at its default
PipeStart == CoreInit /\ UringInit(FALSE) /\ PipeInit(0, NoFaults)

PipeSpec == PipeStart /\ [][PipeNext]_vars

\* the steps of the thread that runs Run, of the worker fiber of reactor r,
\* of the AwaitFiberOnAll fiber of reactor r, and of a Stop() once called
RunStep ==
  \/ Run_start \/ Run_push \/ Run_errs \/ Run_close \/ Run_end
  \/ \E r \in Reactors : Run_setup(r)

WorkerStep(r) == ProcessFiles_pop(r) \/ ProcessFiles_wake(r) \/ ProcessFile_push(r)

ShutdownStep(r) == Shutdown_close(r) \/ Shutdown_flush(r)

StopStep == Stop_close \/ \E r \in Reactors : Stop_visit(r)

\* every thread and every fiber that can take a step is scheduled in the
\* end: threads by the operating system, the fibers of a reactor by its
\* round-robin scheduler, to which a fiber that waits on a queue gives way.
\* Whether Stop() is ever called is left open.
PipeLiveSpec ==
  /\ PipeSpec
  /\ WF_vars(RunStep)
  /\ WF_vars(StopStep)
  /\ \A r \in Reactors :
       /\ WF_vars(WorkerStep(r))
       /\ WF_vars(MapFiber_pop(r))
       /\ WF_vars(ShutdownStep(r))

\* an Executor with --map_limit=MaxLimit
PipeLimitStart == CoreInit /\ UringInit(FALSE) /\ PipeInit(MaxLimit, NoFaults)

PipeLimitSpec == PipeLimitStart /\ [][PipeNext]_vars

\* a run in which up to MaxBad records do not parse and a fiber may throw
PipeFaultStart ==
  \E p \in 0..MaxBad, t \in 0..1 :
    CoreInit /\ UringInit(FALSE) /\ PipeInit(0, [parse |-> p, throws |-> t])

PipeFaultSpec == PipeFaultStart /\ [][PipeNext]_vars

\* the model's own sanity
PipeSane ==
  /\ Len(file_name_q_) <= FileQueueCap
  /\ \A r \in Reactors :
       /\ rqlen[r] \in 0..RecordQueueCap
       /\ wleft[r] \in 0..RecsPerFile
       /\ pushed[r] <= MaxFiles * RecsPerFile

----------------------------------------------------------------------------
(* Claims about the pipeline executor *)

\* C18: with map_limit = L > 0 a mapper calls the do-function on the first
\* min(L, n) of the n records it has popped and drops the others; with
\* map_limit = 0 it drops none.
C18_MapLimit ==
  \A r \in Reactors :
    IF map_limit = 0
    THEN skipped[r] = 0
    ELSE mapped[r] = Min(map_limit, mapped[r] + skipped[r])

\* C19: a mapper that has seen its queue closed has received every record
\* pushed into it, each either passed to the do-function or dropped for
\* map_limit; when Run has returned this holds on every reactor and no
\* record is left in a queue.
C19_RecordConservation ==
  /\ \A r \in Reactors :
       mpc[r] = "done" => (rqlen[r] = 0 /\ pushed[r] = mapped[r] + skipped[r])
  /\ prun = "done" =>
       \A r \in Reactors :
         /\ mpc[r] = "done" /\ wpc[r] = "done"
         /\ rqlen[r] = 0
         /\ pushed[r] = mapped[r] + skipped[r]

\* Run has returned; one reactor got every record, mapped some and dropped
\* the others
C19_Witness ==
  /\ prun = "done"
  /\ \E r \in Reactors :
       /\ pushed[r] = MaxFiles * RecsPerFile
       /\ mapped[r] >= 1
       /\ skipped[r] >= 1

\* C20: Run closes the file-name queue only after every input was enqueued
\* or the queue was found closed; on each reactor StartClosing comes after
\* the worker has ended, the mapper ends only after StartClosing, and the
\* context is flushed only after the mapper has ended.
C20_ShutdownOrder ==
  /\ prun \in {"errs", "close"} => (nextFile > MaxFiles \/ fqState = "closed")
  /\ prun \in {"shutdown", "done"} => (nextFile > MaxFiles \/ stoppc # "idle")
  /\ \A r \in Reactors :
       /\ closing[r] => wpc[r] = "done"
       /\ mpc[r] = "done" => closing[r]
       /\ flushed[r] => mpc[r] = "done"
       /\ spc[r] # "none" => prun \in {"shutdown", "done"}

\* a run without Stop has returned: every input was enqueued, records went
\* through both reactors' queues, every context was flushed
C20_Witness ==
  /\ prun = "done"
  /\ stoppc = "idle"
  /\ nextFile > MaxFiles
  /\ \A r \in Reactors : flushed[r] /\ closing[r]
  /\ \E r \in Reactors : pushed[r] > 0

\* C22: over a run the file-name queue is closed by one call of close() only,
\* also when Stop() is called during the run.
C22_CloseCalledOnce == closes <= 1

\* C22, as the code has it: Run calls close() once, a Stop() that found the
\* queue calls it once more; the queue goes from open to closed and is never
\* reopened.
C22_OneCloseByEach ==
  /\ [](closes = (IF prun \in {"shutdown", "done"} THEN 1 ELSE 0)
                 + (IF stoppc = "visit" \/ (stoppc = "done" /\ svisited # {})
                    THEN 1 ELSE 0))
  /\ [][/\ fqState = "closed" => fqState' \in {"closed", "null"}
        /\ fqState' = "open" => (fqState = "open" \/ prun = "start")]_vars

\* a run during which Stop was called has returned: close() was called twice
C22_Witness ==
  /\ prun = "done"
  /\ stoppc = "done"
  /\ ~pcrash
  /\ closes = 2

\* C29: no interleaving of Stop with Run dereferences a null per_io_ or uses
\* a file-name queue that Run has reset.
C29_StopFindsLiveObjects == ~pcrash

\* C24: no file name is passed to ProcessFile twice; when a run without
\* Stop() has returned every file name was passed to ProcessFile once, and
\* with map_limit = 0 the do-function was called once for every record of
\* every file, whatever the number of reactors.
C24_EachFileOnce ==
  /\ \A f \in Files : processed[f] <= 1
  /\ (prun = "done" /\ stoppc = "idle") =>
       /\ \A f \in Files : processed[f] = 1
       /\ map_limit = 0 => SumOver(mapped, Reactors) = MaxFiles * RecsPerFile

\* a run without Stop() and without limit has returned, and more than one
\* reactor took part in the mapping
C24_Witness ==
  /\ prun = "done"
  /\ stoppc = "idle"
  /\ map_limit = 0
  /\ \A f \in Files : processed[f] = 1
  /\ Cardinality({r \in Reactors : mapped[r] > 0}) > 1

\* C23: once a reactor's stop_early is set, its worker starts no further
\* file.
C23_NoFileOnceStopEarly ==
  [][\A r \in Reactors : (stop_early[r] /\ wpc[r] # "file") => wpc'[r] # "file"]_vars

\* C23, as the code has it: a Stop() that has returned from its visit of the
\* reactors has closed the file-name queue and set stop_early on every
\* reactor; a worker that finds stop_early set at its loop test leaves the
\* loop (one already waiting in pop may still take a file enqueued before
\* the close); once the queue is closed no file name is enqueued and Run
\* passes no further input; a mapper ends only with its record queue drained
\* and is never kept from popping a record.
C23_StopEndsInput ==
  /\ []((stoppc = "done" /\ svisited = Reactors /\ ~pcrash) =>
          /\ fqState # "open"
          /\ \A r \in Reactors : stop_early[r])
  /\ [](\A r \in Reactors :
          /\ mpc[r] = "done" => rqlen[r] = 0
          /\ (PipeAlive /\ mpc[r] = "pop" /\ rqlen[r] > 0) => ENABLED MapFiber_pop(r))
  /\ [][/\ \A r \in Reactors :
             /\ (stop_early[r] /\ wpc[r] = "pop") => wpc'[r] \in {"pop", "done"}
             /\ (stop_early[r] /\ wpc[r] = "wait" /\ wpc'[r] = "file") =>
                  (fqState = "closed" /\ file_name_q_ # <<>>)
        /\ fqState = "closed" =>
             /\ nextFile' = nextFile
             /\ Len(file_name_q_') <= Len(file_name_q_)]_vars

\* Stop() was called while Run was pushing: some input was never enqueued,
\* records already pushed were mapped, and Run has returned
C23_Witness ==
  /\ stoppc = "done"
  /\ ~pcrash
  /\ \A r \in Reactors : stop_early[r]
  /\ prun = "done"
  /\ nextFile <= MaxFiles
  /\ \E r \in Reactors : mapped[r] > 0

\* C25: the parse-error total that Run has reported when it returns is the
\* sum of the reactors' parse_errors counters at the end of the run.
C25_ErrorsTotalAtEnd ==
  prun = "done" => parse_errs = SumOver(parse_errors, Reactors)

\* C26: an exception that leaves a worker or mapper fiber unwinds only that
\* fiber: the process goes on, to shut down the other fibers and have Run
\* report the failure.
C26_FailureContained == thrown # {} => ~terminated

\* C27: with map_limit = 0 a mapper has yielded once for every YieldEvery
\* records it has passed to the do-function.
C27_YieldPerBatch ==
  map_limit = 0 => \A r \in Reactors : yields[r] = mapped[r] \div YieldEvery

\* C21: once the file-name queue is closed, by Run or by Stop, every worker
\* and every mapper terminates and Run returns.
C21_RunReturnsAfterClose ==
  (fqState = "closed") ~>
    (prun = "done" /\ \A r \in Reactors : wpc[r] = "done" /\ mpc[r] = "done")

\* the same, but for the runs that Stop() has crashed (see C29): no fiber
\* stays blocked on a queue
TerminatesUnlessCrashed ==
  (fqState = "closed") ~>
    (pcrash \/ (prun = "done" /\ \A r \in Reactors : wpc[r] = "done" /\ mpc[r] = "done"))

\* C28: a completion with a result <= 0 never fails an assertion of
\* RedisConnection::Handle, whatever the connection's state and the setting
\* of linked_ske: it half-closes that socket and the process goes on.
C28_ErrorNeverAborts ==
  ucrash \notin {"CHECK_GT(res, 0) in WAIT_READ", "CHECK_GT(res, 0) in WRITE"}

\* main() is past done.wait()
WaitReturned == waitpc \in {"returned", "stopped", "joined"}

\* C30: Done is a one-shot latch without lost wakeup. wait() returns only
\* after notify() has set ready; ready never goes back to false; a wait()
\* called after notify() never blocks; once notify() has been called the
\* waiter eventually returns, however the two threads interleave; and main
\* calls pool.Stop() only when the server fiber has drained its connection
\* list.
C30_LatchNoLostWakeup ==
  /\ [](WaitReturned => doneNotified)
  /\ [][doneNotified => doneNotified']_vars
  /\ []((doneNotified /\ waitpc = "call") => [](waitpc \notin {"enqueue", "sleep", "relock"}))
  /\ doneNotified ~> WaitReturned
  /\ [](waitpc \in {"stopped", "joined"} => (srvpc = "done" /\ clist = <<>>))

\* main went to sleep on cond before notify() and was woken by notify_one
C30_Witness == waitpc = "relock" /\ doneNotified /\ condNotified /\ \E c \in Conns : destroyed[c] > 0

-----------------------------------------------------------------------------
(* The global list of varz nodes (VarzListNode)                             *)

\* a pointer that is followed must refer to a live object
Dangling(S) == \E n \in S : n # NULLNODE /\ n \notin liveNodes

\* the nodes reached from node by next_, as the loop of Iterate reaches them;
\* fuel bounds the walk when next_ has a cycle
RECURSIVE ListFrom(_, _)
ListFrom(node, fuel) ==
  IF node = NULLNODE \/ fuel = 0
    THEN <<>>
    ELSE <<node>> \o ListFrom(next_[node], fuel - 1)

\* VarzListNode::VarzListNode: under a WriteHolder, the new node becomes the head
VarzListNode_ctor(n) ==
  /\ n \notin liveNodes
  /\ g_varz_lock = 0
  /\ next_' = [next_ EXCEPT ![n] = global_list]
  /\ prev_' = IF global_list # NULLNODE
                THEN [prev_ EXCEPT ![n] = NULLNODE, ![global_list] = n]
                ELSE [prev_ EXCEPT ![n] = NULLNODE]
  /\ global_list' = n
  /\ liveNodes' = liveNodes \cup {n}
  /\ ctorOrder' = <<n>> \o ctorOrder
  /\ danglingUse' = (danglingUse \/ Dangling({global_list}))
  /\ UNCHANGED <<g_varz_lock, iterNode, iterated, lastDtor>>
  /\ UNCHANGED <<mapVars, outsideVarz>>

\* ~VarzListNode for a node that is not the head, without prev_->next_ = next_
Unlink_half(n) ==
  [next |-> next_,
   prev |-> IF next_[n] # NULLNODE THEN [prev_ EXCEPT ![next_[n]] = prev_[n]] ELSE prev_]

\* ~VarzListNode for a node that is not the head:
\* if (next_) next_->prev_ = prev_; if (prev_) prev_->next_ = next_;
Unlink(n) ==
  [next |-> IF prev_[n] # NULLNODE THEN [next_ EXCEPT ![prev_[n]] = next_[n]] ELSE next_,
   prev |-> IF next_[n] # NULLNODE THEN [prev_ EXCEPT ![next_[n]] = prev_[n]] ELSE prev_]

\* where in the list n is
Place(n) ==
  IF global_list = n THEN "head"
  ELSE IF next_[n] = NULLNODE THEN "tail"
  ELSE "middle"

\* VarzListNode::~VarzListNode: under a WriteHolder
VarzListNode_dtor(n) ==
  /\ n \in liveNodes
  /\ g_varz_lock = 0
  /\ IF global_list = n
       THEN /\ global_list' = next_[n]
            /\ UNCHANGED <<next_, prev_, danglingUse>>
       ELSE /\ next_' = Unlink(n).next
            /\ prev_' = Unlink(n).prev
            /\ danglingUse' = (danglingUse \/ Dangling({next_[n], prev_[n]}))
            /\ UNCHANGED global_list
  /\ liveNodes' = liveNodes \ {n}
  /\ ctorOrder' = SelectSeq(ctorOrder, LAMBDA m : m # n)
  /\ lastDtor' = Place(n)
  /\ UNCHANGED <<g_varz_lock, iterNode, iterated>>
  /\ UNCHANGED <<mapVars, outsideVarz>>

\* Iterate: ReadHolder guard(g_varz_lock); node = global_list()
Iterate_begin ==
  /\ g_varz_lock = 0
  /\ g_varz_lock' = 1
  /\ iterNode' = global_list
  /\ iterated' = <<>>
  /\ UNCHANGED <<global_list, next_, prev_, liveNodes, ctorOrder, lastDtor, danglingUse>>
  /\ UNCHANGED <<mapVars, outsideVarz>>

\* one round of the loop: f(node->name_, node->GetData()); node = node->next_
Iterate_step ==
  /\ g_varz_lock = 1
  /\ iterNode # NULLNODE
  /\ iterated' = Append(iterated, iterNode)
  /\ iterNode' = next_[iterNode]
  /\ danglingUse' = (danglingUse \/ Dangling({iterNode}))
  /\ UNCHANGED <<global_list, next_, prev_, liveNodes, g_varz_lock, ctorOrder, lastDtor>>
  /\ UNCHANGED <<mapVars, outsideVarz>>

\* node == nullptr: the loop ends and the ReadHolder is released
Iterate_end ==
  /\ g_varz_lock = 1
  /\ iterNode = NULLNODE
  /\ g_varz_lock' = 0
  /\ iterated' = <<>>
  /\ UNCHANGED <<global_list, next_, prev_, liveNodes, iterNode, ctorOrder, lastDtor,
                 danglingUse>>
  /\ UNCHANGED <<mapVars, outsideVarz>>

VarzListNext ==
  \/ \E n \in Nodes : VarzListNode_ctor(n)
  \/ \E n \in Nodes : VarzListNode_dtor(n)
  \/ Iterate_begin
  \/ Iterate_step
  \/ Iterate_end

VarzListSpec == AlgoInit /\ [][VarzListNext]_vars

\* the nodes in a sequence
NodesOf(q) == {q[i] : i \in 1..Len(q)}

\* C31: whatever nodes were constructed and destroyed, in any order, the list
\* reached from global_list() by next_ holds exactly the live nodes, each once,
\* the most recently constructed first; Iterate and the destructor never touch
\* a destroyed node, a finished Iterate has visited exactly the list, and the
\* prev_ of every node that is not the head refers to the live node before it.
C31_ListIsLiveNodes ==
  /\ ListFrom(global_list, MaxNodes + 1) = ctorOrder
  /\ NodesOf(ctorOrder) = liveNodes
  /\ Len(ctorOrder) = Cardinality(liveNodes)
  /\ ~danglingUse
  /\ (g_varz_lock = 1 /\ iterNode = NULLNODE) => iterated = ctorOrder
  /\ \A n \in liveNodes \ {global_list} : prev_[n] \in liveNodes /\ next_[prev_[n]] = n

\* a middle node was destroyed with two nodes left, and Iterate has walked them
C31_Witness ==
  /\ lastDtor = "middle"
  /\ Len(ctorOrder) = 2
  /\ g_varz_lock = 1
  /\ iterated = ctorOrder

-----------------------------------------------------------------------------
(* The map of counters (VarzMapCount)                                       *)

\* the process runs: no LOG(DFATAL) has ended it
MapAlive == ~dfatal

\* the key of the call of thread t
KeyOf(t) == vcall[t].key

\* IncBy(key, delta): an empty key is logged with DFATAL, which ends a debug
\* build and returns in a release build; a delta of 0 returns at once.
IncBy(t) ==
  /\ MapAlive
  /\ vpc[t] = "idle"
  /\ callsLeft > 0
  /\ callsLeft' = callsLeft - 1
  /\ \E key \in Keys, delta \in Deltas :
       IF key = EMPTYKEY
         THEN /\ \E debug \in BOOLEAN : dfatal' = debug
              /\ UNCHANGED <<vpc, vcall, deltaSum>>
         ELSE /\ deltaSum' = [deltaSum EXCEPT ![key] = @ + delta]
              /\ IF delta = 0
                   THEN UNCHANGED <<vpc, vcall>>
                   ELSE /\ vpc' = [vpc EXCEPT ![t] = "lock_shared"]
                        /\ vcall' = [vcall EXCEPT ![t] = [op |-> "IncBy", key |-> key, arg |-> delta]]
              /\ UNCHANGED dfatal
  /\ UNCHANGED <<rw_spinlock_, map_counts_, vholds, inserts, setKeys>>
  /\ UNCHANGED <<listVars, outsideVarz>>

\* Set(key, value): an empty key as in IncBy
Set(t) ==
  /\ MapAlive
  /\ vpc[t] = "idle"
  /\ callsLeft > 0
  /\ callsLeft' = callsLeft - 1
  /\ \E key \in Keys, value \in Deltas :
       IF key = EMPTYKEY
         THEN /\ \E debug \in BOOLEAN : dfatal' = debug
              /\ UNCHANGED <<vpc, vcall, setKeys>>
         ELSE /\ setKeys' = setKeys \cup {key}
              /\ vpc' = [vpc EXCEPT ![t] = "lock_shared"]
              /\ vcall' = [vcall EXCEPT ![t] = [op |-> "Set", key |-> key, arg |-> value]]
              /\ UNCHANGED dfatal
  /\ UNCHANGED <<rw_spinlock_, map_counts_, vholds, inserts, deltaSum>>
  /\ UNCHANGED <<listVars, outsideVarz>>

\* ReadLockAndFindOrInsert: rw_spinlock_.lock_shared() succeeds when no thread
\* holds the lock exclusively
lock_shared(t) ==
  /\ MapAlive
  /\ vpc[t] = "lock_shared"
  /\ rw_spinlock_.writer = NOTHREAD
  /\ rw_spinlock_' = [rw_spinlock_ EXCEPT !.readers = @ + 1]
  /\ vholds' = [vholds EXCEPT ![t].shared = @ + 1]
  /\ vpc' = [vpc EXCEPT ![t] = "find"]
  /\ UNCHANGED <<map_counts_, vcall, callsLeft, inserts, deltaSum, setKeys, dfatal>>
  /\ UNCHANGED <<listVars, outsideVarz>>

\* it = map_counts_.find(key): found, return it with the shared lock held;
\* not found, rw_spinlock_.unlock_shared()
find(t) ==
  /\ MapAlive
  /\ vpc[t] = "find"
  /\ IF KeyOf(t) \in DOMAIN map_counts_
       THEN /\ vpc' = [vpc EXCEPT ![t] = "apply"]
            /\ UNCHANGED <<rw_spinlock_, vholds>>
       ELSE /\ rw_spinlock_' = [rw_spinlock_ EXCEPT !.readers = @ - 1]
            /\ vholds' = [vholds EXCEPT ![t].shared = @ - 1]
            /\ vpc' = [vpc EXCEPT ![t] = "lock"]
  /\ UNCHANGED <<map_counts_, vcall, callsLeft, inserts, deltaSum, setKeys, dfatal>>
  /\ UNCHANGED <<listVars, outsideVarz>>

\* rw_spinlock_.lock() succeeds when nobody holds the lock in either mode
lock(t) ==
  /\ MapAlive
  /\ vpc[t] = "lock"
  /\ rw_spinlock_ = [readers |-> 0, writer |-> NOTHREAD]
  /\ rw_spinlock_' = [rw_spinlock_ EXCEPT !.writer = t]
  /\ vholds' = [vholds EXCEPT ![t].excl = @ + 1]
  /\ vpc' = [vpc EXCEPT ![t] = "emplace"]
  /\ UNCHANGED <<map_counts_, vcall, callsLeft, inserts, deltaSum, setKeys, dfatal>>
  /\ UNCHANGED <<listVars, outsideVarz>>

\* an emplace that replaces the element of a key that is present
Emplace_assign(map, key) ==
  [k \in DOMAIN map \cup {key} |-> IF k = key THEN 0 ELSE map[k]]

\* map_counts_.emplace(key, 0): adds the element unless the key is present
Emplace(map, key) ==
  [k \in DOMAIN map \cup {key} |-> IF k \in DOMAIN map THEN map[k] ELSE 0]

\* res = map_counts_.emplace(key, 0); rw_spinlock_.unlock_and_lock_shared();
emplace(t) ==
  /\ MapAlive
  /\ vpc[t] = "emplace"
  /\ map_counts_' = Emplace(map_counts_, KeyOf(t))
  /\ inserts' = IF KeyOf(t) \in DOMAIN map_counts_
                  THEN inserts
                  ELSE [inserts EXCEPT ![KeyOf(t)] = @ + 1]
  /\ rw_spinlock_' = [readers |-> rw_spinlock_.readers + 1, writer |-> NOTHREAD]
  /\ vholds' = [vholds EXCEPT ![t] = [shared |-> @.shared + 1, excl |-> @.excl - 1]]
  /\ vpc' = [vpc EXCEPT ![t] = "apply"]
  /\ UNCHANGED <<vcall, callsLeft, deltaSum, setKeys, dfatal>>
  /\ UNCHANGED <<listVars, outsideVarz>>

\* it->second.fetch_add(delta) in IncBy, it->second.store(value) in Set
apply(t) ==
  /\ MapAlive
  /\ vpc[t] = "apply"
  /\ KeyOf(t) \in DOMAIN map_counts_
  /\ map_counts_' = [map_counts_ EXCEPT ![KeyOf(t)] =
                       IF vcall[t].op = "IncBy" THEN @ + vcall[t].arg ELSE vcall[t].arg]
  /\ vpc' = [vpc EXCEPT ![t] = "unlock_shared"]
  /\ UNCHANGED <<rw_spinlock_, vcall, vholds, callsLeft, inserts, deltaSum, setKeys, dfatal>>
  /\ UNCHANGED <<listVars, outsideVarz>>

\* rw_spinlock_.unlock_shared(); and the call returns
unlock_shared(t) ==
  /\ MapAlive
  /\ vpc[t] = "unlock_shared"
  /\ rw_spinlock_' = [rw_spinlock_ EXCEPT !.readers = @ - 1]
  /\ vholds' = [vholds EXCEPT ![t].shared = @ - 1]
  /\ vpc' = [vpc EXCEPT ![t] = "idle"]
  /\ vcall' = [vcall EXCEPT ![t] = NoVarzCall]
  /\ UNCHANGED <<map_counts_, callsLeft, inserts, deltaSum, setKeys, dfatal>>
  /\ UNCHANGED <<listVars, outsideVarz>>

VarzMapNext ==
  \/ \E t \in Threads : IncBy(t)
  \/ \E t \in Threads : Set(t)
  \/ \E t \in Threads : lock_shared(t)
  \/ \E t \in Threads : find(t)
  \/ \E t \in Threads : lock(t)
  \/ \E t \in Threads : emplace(t)
  \/ \E t \in Threads : apply(t)
  \/ \E t \in Threads : unlock_shared(t)

VarzMapSpec == AlgoInit /\ [][VarzMapNext]_vars

\* every thread is outside IncBy and Set
AllReturned == \A t \in Threads : vpc[t] = "idle"

\* the threads that hold rw_spinlock_ shared
SharedHolders == {t \in Threads : vholds[t].shared > 0}

\* C32: for every interleaving of IncBy and Set calls of several threads, a
\* call that has returned holds nothing of the reader-writer lock and the
\* lock's state is the acquisitions not yet released; the map changes its
\* keys only in a step of the thread that holds the lock exclusively; a key
\* is added at most once, also when two threads miss it together; when all
\* calls have returned, a key that only IncBy touched holds the sum of the
\* deltas; and IncBy with delta 0 or an empty key changes neither map nor lock.
C32_CountsUnderLock ==
  /\ [](\A t \in Threads : vpc[t] = "idle" => vholds[t] = NoHold)
  /\ [](/\ rw_spinlock_.readers = Cardinality(SharedHolders)
        /\ \A t \in Threads : vholds[t].shared \in {0, 1} /\ vholds[t].excl \in {0, 1}
        /\ \A t \in Threads : vholds[t].excl = 1 <=> rw_spinlock_.writer = t
        /\ rw_spinlock_.writer # NOTHREAD => rw_spinlock_.readers = 0)
  /\ [][DOMAIN map_counts_' # DOMAIN map_counts_ =>
          (rw_spinlock_.writer # NOTHREAD /\ vpc[rw_spinlock_.writer] # vpc'[rw_spinlock_.writer])]_vars
  /\ [](\A k \in Keys : inserts[k] <= 1)
  /\ []((AllReturned /\ MapAlive) =>
          \A k \in Keys \ (setKeys \cup {EMPTYKEY}) :
            IF k \in DOMAIN map_counts_ THEN map_counts_[k] = deltaSum[k] ELSE deltaSum[k] = 0)
  /\ [](EMPTYKEY \notin DOMAIN map_counts_)
  /\ [][(callsLeft' < callsLeft /\ vpc' = vpc) => UNCHANGED <<map_counts_, rw_spinlock_>>]_vars
  /\ [](\A t \in Threads : vpc[t] # "idle" =>
          (KeyOf(t) # EMPTYKEY /\ (vcall[t].op = "IncBy" => vcall[t].arg # 0)))

\* two threads missed the same key at the same time: the first has added it
\* and counted into it, the second holds the lock exclusively and is about
\* to emplace the key that is now present
C32_Witness ==
  \E t \in Threads :
    /\ vpc[t] = "emplace"
    /\ rw_spinlock_.writer = t
    /\ KeyOf(t) \in DOMAIN map_counts_
    /\ map_counts_[KeyOf(t)] # 0
    /\ inserts[KeyOf(t)] = 1
====
